---- MODULE Spec2Model ----
(***************************************************************************)
(* Verification model of the routing core of the Elite Coding Assistant:   *)
(*   - CodingDirector.process_request (src/main/coding_director.py) with   *)
(*     ModelManager (src/main/model_manager.py) and LocalLLMClient         *)
(*     (src/utils/local_llm_client.py) underneath it;                      *)
(*   - PerformanceTracker.record_interaction (src/learning_adaptation.py); *)
(*   - AdaptiveRoutingEngine and SystemAdaptationEngine of the same file.  *)
(*     config.learning and the pattern store (SupabaseLearningClient) are  *)
(*     not under src/: the configured values are inputs of the initial     *)
(*     state and the pattern store's answers are inputs of the actions     *)
(*     that await it.  EnhancedConfig (src/main/config_manager.py) is      *)
(*     modelled with the attributes it has.                                *)
(*                                                                         *)
(* Spec explores the director, TrackerSpec the tracker, RoutingSpec the    *)
(* routing engine and AdaptSpec the adaptation engine with the tracker and *)
(* the accuracy history it reads.  get_routing_decision and                *)
(* run_adaptation_cycle are one action each: nothing else is interleaved   *)
(* with them.  Floats are exact fractions or hundredths.                   *)
(* HealthSpec explores get_system_health_score, AccuracySpec and           *)
(* HistorySpec long runs of reported outcomes and of adaptations.          *)
(* TrendSpec, IssuesSpec and BestSpec explore the queries of the tracker   *)
(* (get_performance_trends, identify_performance_issues,                   *)
(* get_best_performing_model), ManagerSpec the ModelManager called on its  *)
(* own.                                                                    *)
(*                                                                         *)
(* The callers under src/ (cli_interface/cli.py, usage_examples.py, the    *)
(* example at the end of coding_director.py) await one request at a time,  *)
(* so the director is modelled as handling requests one after another.     *)
(* One action is one run of the coroutine between two suspension points    *)
(* (the awaits on the Ollama client).                                      *)
(*                                                                         *)
(* Concurrent callers are asyncio tasks of one event loop: ConcurrentSpec  *)
(* (routing engine), InitializeSpec (initialize) and CallersSpec (tracker) *)
(* interleave several calls, each action being the code of one task from   *)
(* one await to the next.                                                  *)
(***************************************************************************)
EXTENDS Integers, Sequences, FiniteSets, TLC

VARIABLES
    \* ---- CodingDirector / ModelManager / LocalLLMClient ----
    pc,              \* position of process_request: idle, connecting, classify, walk, done, hung
    ctx,             \* kind of the context object handed to process_request
    d_init,          \* CodingDirector.is_initialized
    mm_init,         \* ModelManager.is_initialized
    is_connected,    \* LocalLLMClient.is_connected
    llm_enabled,     \* LocalLLMClient.models[m].enabled
    cfg_disabled,    \* roles whose IndividualModelConfig.enabled is False
    classification,  \* local variable classification of process_request
    chain,           \* local variable unique_roles_to_try
    idx,             \* position of the for loop in unique_roles_to_try
    calls,           \* roles passed to ModelManager.get_completion_by_role by this request
    list_calls,      \* number of client.list() calls (connect attempts) of this request
    router_resp,     \* what get_completion_by_role returned to classify_task
    replies,         \* what get_completion_by_role returned for each specialist called
    result,          \* what process_request returned (or that it raised)
    last_kind,       \* kind of the result of the previous request
    nreq,            \* number of requests completed
    terminal,        \* history: number of requests that ended resolved or exhausted
    \* ---- PerformanceTracker ----
    model_metrics,   \* PerformanceTracker.model_metrics
    rec_n,           \* history: number of record_interaction calls per model
    rec_succ,        \* history: number of those with success=True
    rec_rt_sum,      \* history: sum of the response_time_ms recorded
    rec_rating_n,    \* history: number of calls that gave a user_rating
    rec_rating_sum,  \* history: sum of the ratings given
    metric_order,    \* the keys of model_metrics in insertion order
    metric_history,  \* PerformanceTracker.metric_history: key -> the values kept
    \* ---- AdaptiveRoutingEngine ----
    confidence_threshold,      \* AdaptiveRoutingEngine.confidence_threshold, in hundredths
    pattern_cache,             \* AdaptiveRoutingEngine.pattern_cache
    routing_accuracy_history,  \* AdaptiveRoutingEngine.routing_accuracy_history
    decision,        \* what the last get_routing_decision returned
    last_store,      \* history: what the pattern lookup of that call met
    last_pattern,    \* history: pattern_recommendation of that call
    last_rule,       \* history: rule_recommendation of that call
    ndecisions,      \* number of get_routing_decision calls
    last_age,        \* history: age in seconds of the cache entry that call used, or -1
    nreports,        \* number of update_routing_patterns calls
    report_store_ok, \* history: the pattern store took the update of the last of them
    reported,        \* history: every outcome appended to routing_accuracy_history
    \* ---- wall clock ----
    now,             \* datetime.now(), in seconds since construction
    nticks,          \* number of clock advances
    \* ---- SystemAdaptationEngine ----
    adaptation_history,  \* SystemAdaptationEngine.adaptation_history
    last_adaptation,     \* SystemAdaptationEngine.last_adaptation
    success_threshold,   \* performance_thresholds[SUCCESS_RATE] of the tracker
    timeout_seconds,     \* timeout_seconds of each model the configuration knows
    cycle_result,        \* what the last run_adaptation_cycle returned
    last_analysis,       \* history: the recommendations that cycle analysed
    cycle_applied,       \* history: the records that cycle appended
    ncycles,             \* number of run_adaptation_cycle calls
    napplied,            \* number of direct implement_adaptation calls
    apply_result,        \* what the last direct implement_adaptation returned
    \* ---- get_system_health_score ----
    health,              \* what the last get_system_health_score returned
    nhealth,             \* number of get_system_health_score calls
    answer,              \* what the last call made from outside the director returned
    nqueries,            \* number of those calls
    \* ---- concurrent process_request tasks in initialize() ----
    init_pc,             \* each task: idle, connecting (suspended in client.list()), done
    connect_runs,        \* number of times initialize_clients went on to connect()
    connect_failures,    \* number of those that did not connect
    \* ---- concurrent get_routing_decision / update_routing_patterns tasks ----
    task,                \* each task: where it is suspended and its local variables
    store_version,       \* number of updates the pattern store has applied
    cache_fetched,       \* history: store_version each cached recommendation was read at
    completed_version,   \* history: latest update whose update_routing_patterns returned
    \* ---- concurrent record_interaction callers ----
    pending,             \* request tasks that have not called record_interaction yet
    spawned              \* history: the call of every such task, in order of creation

dvars == <<pc, ctx, d_init, mm_init, is_connected, llm_enabled, cfg_disabled,
           classification, chain, idx, calls, list_calls, router_resp, replies,
           result, last_kind, nreq, terminal>>
tvars == <<model_metrics, rec_n, rec_succ, rec_rt_sum, rec_rating_n, rec_rating_sum,
           metric_order, metric_history>>
rvars == <<confidence_threshold, pattern_cache, routing_accuracy_history, decision,
           last_store, last_pattern, last_rule, ndecisions, last_age, nreports,
           report_store_ok, reported>>
rhist == <<nreports, report_store_ok, reported>>
cvars == <<now, nticks>>
avars == <<adaptation_history, last_adaptation, success_threshold, timeout_seconds,
           cycle_result, last_analysis, cycle_applied, ncycles, napplied,
           apply_result>>
lvars == <<rvars, cvars, avars>>
hvars == <<health, nhealth>>
yvars == <<answer, nqueries>>
qvars == <<task, store_version, cache_fetched, completed_version>>
ivars == <<init_pc, connect_runs, connect_failures>>
gvars == <<hvars, qvars, ivars, yvars>>
kvars == <<pending, spawned>>
vars == <<dvars, tvars, lvars, gvars, kvars>>

(***************************************************************************)
(* Bounds of the model.                                                    *)
(***************************************************************************)
MaxRequests == 3
MaxInteractions == 3
MaxTrendInteractions == 11
MaxIssueInteractions == 4
MaxBestInteractions == 10
MaxQueries == 1
MaxManagerCalls == 3
MaxDecisions == 2
MaxOutcomes == 2
MaxTicks == 2
MaxRoutingSteps == 4
MaxCycles == 2
MaxApplies == 2
MaxTracked == 2
MaxAdaptSteps == 5
MaxReports == 1001
MaxTasks == 2
MaxInitTasks == 3
MaxCallers == 3
MaxHistoryApplies == 51
MaxHealthInteractions == 5
MaxHealthCalls == 1
MaxHealthSteps == 7

(***************************************************************************)
(* Text.  A str is a sequence of one-character strings, so that strip()    *)
(* and lower() are computed and not assumed.                               *)
(***************************************************************************)
UpperChars == <<"A", "B", "C", "D", "E", "F", "G", "H", "I", "J", "K", "L", "M",
               "N", "O", "P", "Q", "R", "S", "T", "U", "V", "W", "X", "Y", "Z">>
LowerChars == <<"a", "b", "c", "d", "e", "f", "g", "h", "i", "j", "k", "l", "m",
               "n", "o", "p", "q", "r", "s", "t", "u", "v", "w", "x", "y", "z">>
Whitespace == {" ", "\t", "\n", "\r"}

LowerChar(c) ==
    IF \E i \in 1..Len(UpperChars) : UpperChars[i] = c
    THEN LowerChars[CHOOSE i \in 1..Len(UpperChars) : UpperChars[i] = c]
    ELSE c

lower(s) == [i \in 1..Len(s) |-> LowerChar(s[i])]

strip(s) ==
    LET keep == {i \in 1..Len(s) : s[i] \notin Whitespace}
    IN  IF keep = {} THEN <<>>
        ELSE LET lo == CHOOSE i \in keep : \A j \in keep : i <= j
                 hi == CHOOSE i \in keep : \A j \in keep : j <= i
             IN  SubSeq(s, lo, hi)

MATH == <<"m", "a", "t", "h">>
GENERAL == <<"g", "e", "n", "e", "r", "a", "l">>

(***************************************************************************)
(* Roles and models.                                                       *)
(***************************************************************************)
Roles == {"router", "math_specialist", "lead_developer", "senior_developer",
          "principal_architect"}

\* model id serving each role (LocalLLMClient._load_model_configs)
ModelOf(role) ==
    CASE role = "router"              -> "openhermes:7b"
      [] role = "math_specialist"     -> "mathstral:7b"
      [] role = "lead_developer"      -> "deepseek-coder-v2:16b-lite-instruct"
      [] role = "senior_developer"    -> "codellama:13b"
      [] role = "principal_architect" -> "wizardcoder:13b-python"

Models == {ModelOf(r) : r \in Roles}

(***************************************************************************)
(* Inputs.                                                                 *)
(***************************************************************************)
\* What a caller can hand to process_request.  CodingTaskRequestContext(...)
\* itself rejects an empty user_prompt (Field(min_length=1)), so an empty
\* task reaches process_request either inside an instance that was not
\* validated (model_construct, or user_prompt assigned after construction;
\* validate_assignment is off) or as a plain mapping.
CtxKinds == {"instance", "empty_instance", "empty_mapping"}
EmptyTask == {"empty_instance", "empty_mapping"}

\* content of a router reply
RouterContents == {MATH, <<" ", "M", "a", "t", "h", "\n">>, GENERAL,
                   <<"b", "a", "n", "a", "n", "a">>, <<>>}
\* content of a specialist reply
SpecialistContents == {<<"o", "k">>, <<" ", "o", "k", "\n">>, <<>>, <<" ", "\t">>}

\* Outcome of one await on AsyncClient.chat: a reply, an exception, or a call
\* that never completes.
ChatOutcomes(contents) ==
    {[kind |-> "reply", content |-> c] : c \in contents}
        \cup {[kind |-> "error", content |-> <<>>], [kind |-> "hang", content |-> <<>>]}

\* roles disabled in config/models.json
DisabledChoices == {{}, {"router"}, {"senior_developer"}}

\* what client.list() can report
AvailableChoices == {Models, Models \ {"codellama:13b"}, {}}

NoResponse == [present |-> FALSE, content |-> <<>>]
Response(c) == [present |-> TRUE, content |-> c]

NoResult == [kind |-> "none", classification |-> "None", has_content |-> FALSE,
             content |-> <<>>, role |-> "None", model |-> "None", chain |-> <<>>,
             has_error |-> FALSE]

\* mutant: the result of an exhausted chain carries no error message
AllFailedResult_NoError(cls, roles) ==
    [NoResult EXCEPT !.kind = "all_failed", !.classification = cls, !.chain = roles]

\* CodingDirectorFinalResult of a chain that gave no response: the
\* classification and an error_message naming the roles tried
AllFailedResult(cls, roles) ==
    [NoResult EXCEPT !.kind = "all_failed", !.classification = cls, !.chain = roles,
                     !.has_error = TRUE]

(***************************************************************************)
(* LocalLLMClient                                                          *)
(***************************************************************************)
\* LocalLLMClient.connect: the enabled flags it leaves behind
EnabledAfterConnect(reachable, available) ==
    IF reachable THEN [m \in Models |-> m \in available] ELSE llm_enabled

\* mutant: a reachable server counts as connected although models are missing
connect_IgnoresMissing(reachable, available) == reachable

\* LocalLLMClient.connect: its return value
connect(reachable, available) ==
    reachable /\ \A m \in Models : m \in available

\* LocalLLMClient.generate_response (non-streaming): ValueError for an unknown
\* or disabled model, otherwise the awaited chat; every exception reaches
\* ModelManager, which turns it into None.
generate_response(model, chat) ==
    IF model \notin Models \/ ~llm_enabled[model] THEN NoResponse
    ELSE IF chat.kind = "reply" THEN Response(chat.content)
    ELSE NoResponse

(***************************************************************************)
(* ModelManager                                                            *)
(***************************************************************************)
\* mutant: a disabled role is served like any other
get_completion_by_role_IgnoresDisabled(role, chat) ==
    IF ~mm_init THEN NoResponse
    ELSE IF role \notin Roles THEN NoResponse
    ELSE generate_response(ModelOf(role), chat)

\* ModelManager.get_completion_by_role (non-streaming): what it returns
get_completion_by_role(role, chat) ==
    IF ~mm_init THEN NoResponse
    ELSE IF role \notin Roles THEN NoResponse
    ELSE IF role \in cfg_disabled THEN NoResponse
    ELSE generate_response(ModelOf(role), chat)

\* mutant: the manager is marked initialized whatever connect() returned
initialize_clients_Latched(connected) == TRUE

\* ModelManager.initialize_clients: is_initialized once connect() has returned
initialize_clients(connected) == IF connected THEN TRUE ELSE FALSE

\* whether get_completion_by_role gets as far as calling
\* local_llm_client.generate_response
GeneratesResponse(role) ==
    /\ mm_init
    /\ role \in Roles
    /\ role \notin cfg_disabled

\* whether get_completion_by_role gets as far as awaiting AsyncClient.chat
ChatIssued(role) ==
    /\ mm_init
    /\ role \in Roles
    /\ role \notin cfg_disabled
    /\ llm_enabled[ModelOf(role)]

(***************************************************************************)
(* CodingDirector                                                          *)
(***************************************************************************)
\* CodingTaskRequestContext.model_validate(context): an instance is returned
\* as it is (pydantic does not revalidate instances), a mapping is validated
\* and an empty user_prompt raises.
model_validate(c) == c # "empty_mapping"

\* mutant: an unexpected label is passed on as no classification
ClassifyLabel_NoDefault(resp) ==
    IF resp.present
    THEN LET label == lower(strip(resp.content))
         IN  IF label = MATH THEN "math"
             ELSE IF label = GENERAL THEN "general"
             ELSE "None"
    ELSE "None"

\* classify_task, from the router's response on
ClassifyLabel(resp) ==
    IF resp.present
    THEN LET label == lower(strip(resp.content))
         IN  IF label = MATH THEN "math"
             ELSE IF label = GENERAL THEN "general"
             ELSE "general"
    ELSE "general"

\* mutant: the math entry of primary_role_map is lost
PrimaryRole_AlwaysLead(cls) == "lead_developer"

\* primary_role_map.get(classification or "general", "lead_developer")
PrimaryRole(cls) ==
    LET key == IF cls = "None" THEN "general" ELSE cls
    IN  IF key = "math" THEN "math_specialist"
        ELSE IF key = "general" THEN "lead_developer"
        ELSE "lead_developer"

RECURSIVE Dedup(_, _)
Dedup(todo, acc) ==
    IF todo = <<>> THEN acc
    ELSE IF \E i \in 1..Len(acc) : acc[i] = Head(todo)
         THEN Dedup(Tail(todo), acc)
         ELSE Dedup(Tail(todo), Append(acc, Head(todo)))

\* unique_roles_to_try
RolesToTry(cls) ==
    Dedup(<<PrimaryRole(cls), "senior_developer", "principal_architect">>, <<>>)

\* mutant: whitespace-only content is let through
ValidResponse_NoStrip(resp) == resp.present /\ resp.content # <<>>

\* _get_specialist_response: the test that lets a response through
ValidResponse(resp) ==
    resp.present /\ resp.content # <<>> /\ strip(resp.content) # <<>>

\* mutant: the loop stops one role early
ChainExhausted_OffByOne(i, ch) == i >= Len(ch)

\* the for loop over unique_roles_to_try has run out
ChainExhausted(i, ch) == i > Len(ch)

\* the objects as their constructors leave them
\* a recommendation, or None
NoRecommendation == [present |-> FALSE, model |-> "none", confidence |-> 0]
Recommendation(m, c) == [present |-> TRUE, model |-> m, confidence |-> c]

\* no features: the hard-coded fallback decision carries none
NoFeatures ==
    [math_score |-> 0, architecture_score |-> 0, debug_score |-> 0,
     complexity_indicators |-> 0, estimated_complexity |-> 0, domain_hints |-> 0]

\* no decision returned yet
NoDecision ==
    [model |-> "none", confidence |-> 0, source |-> "none", confirmed |-> FALSE,
     fallback_models |-> <<>>, has_features |-> FALSE, features |-> NoFeatures]

\* config.learning.confidence_threshold of a default configuration, hundredths
DefaultThreshold == 75

\* timeout of a model's configuration, seconds
DefaultTimeout == 30

\* run_adaptation_cycle has not returned yet
NoCycle == [status |-> "none", analyzed |-> 0, implemented |-> 0, failed |-> 0]

\* the tasks that call the routing engine concurrently; a task not started
RoutingTasks == 1..MaxTasks
NoTask ==
    [pc |-> "idle", signature |-> <<>>, features |-> NoFeatures,
     answer |-> [kind |-> "none", model |-> "none", confidence |-> 0],
     version |-> 0, success |-> FALSE, store_ok |-> FALSE]

\* the process_request tasks that run initialize() concurrently
InitTasks == 1..MaxInitTasks

\* get_system_health_score has not returned yet
NoHealth == <<-1, 1>>
NoAnswer == [query |-> "none"]

Constructed ==
    /\ pc = "idle"
    /\ ctx = "instance"
    /\ d_init = FALSE
    /\ mm_init = FALSE
    /\ is_connected = FALSE
    /\ llm_enabled = [m \in Models |-> TRUE]
    /\ classification = "None"
    /\ chain = <<>>
    /\ idx = 0
    /\ calls = <<>>
    /\ list_calls = 0
    /\ router_resp = NoResponse
    /\ replies = <<>>
    /\ result = NoResult
    /\ last_kind = "none"
    /\ nreq = 0
    /\ terminal = 0
    /\ model_metrics = <<>>
    /\ rec_n = [m \in Models |-> 0]
    /\ rec_succ = [m \in Models |-> 0]
    /\ rec_rt_sum = [m \in Models |-> 0]
    /\ rec_rating_n = [m \in Models |-> 0]
    /\ rec_rating_sum = [m \in Models |-> 0]
    /\ pattern_cache = <<>>
    /\ routing_accuracy_history = <<>>
    /\ decision = NoDecision
    /\ last_store = "idle"
    /\ last_pattern = NoRecommendation
    /\ last_rule = NoRecommendation
    /\ ndecisions = 0
    /\ last_age = -1
    /\ nreports = 0
    /\ report_store_ok = FALSE
    /\ reported = <<>>
    /\ now = 0
    /\ nticks = 0
    /\ metric_order = <<>>
    /\ metric_history = <<>>
    /\ adaptation_history = <<>>
    /\ last_adaptation = 0
    /\ success_threshold = <<17, 20>>
    /\ cycle_result = NoCycle
    /\ last_analysis = <<>>
    /\ cycle_applied = <<>>
    /\ ncycles = 0
    /\ napplied = 0
    /\ apply_result = "none"
    /\ health = NoHealth
    /\ nhealth = 0
    /\ answer = NoAnswer
    /\ nqueries = 0
    /\ pending = {}
    /\ spawned = <<>>
    /\ task = [t \in RoutingTasks |-> NoTask]
    /\ store_version = 0
    /\ cache_fetched = <<>>
    /\ init_pc = [t \in InitTasks |-> "idle"]
    /\ connect_runs = 0
    /\ connect_failures = 0
    /\ completed_version = 0

Init ==
    /\ Constructed
    /\ cfg_disabled \in DisabledChoices
    /\ confidence_threshold = DefaultThreshold
    /\ timeout_seconds = [m \in Models |-> DefaultTimeout]

\* process_request up to its first suspension: validation, then initialize()
\* as far as the await on client.list().
Start(c) ==
    /\ pc = "idle"
    /\ nreq < MaxRequests
    /\ ctx' = c
    /\ IF ~model_validate(c)
       THEN \* building the error result validates the echoed context again
            /\ result' = [NoResult EXCEPT !.kind = "raised"]
            /\ pc' = "done"
            /\ UNCHANGED <<d_init, list_calls>>
       ELSE IF ~mm_init
            THEN /\ pc' = "connecting"
                 /\ list_calls' = list_calls + 1
                 /\ UNCHANGED <<d_init, result>>
            ELSE /\ d_init' = (IF ~d_init THEN mm_init ELSE d_init)
                 /\ pc' = "classify"
                 /\ UNCHANGED <<list_calls, result>>
    /\ UNCHANGED <<mm_init, is_connected, llm_enabled, cfg_disabled, classification,
                   chain, idx, calls, router_resp, replies, last_kind, nreq, terminal>>
    /\ UNCHANGED <<tvars, lvars, gvars, kvars>>

\* client.list() completes: the rest of connect(), initialize_clients() and
\* initialize(), and the test of its result in process_request.
Connect(reachable, available) ==
    /\ pc = "connecting"
    /\ is_connected' = reachable
    /\ llm_enabled' = EnabledAfterConnect(reachable, available)
    /\ mm_init' = initialize_clients(connect(reachable, available))
    /\ d_init' = mm_init'
    /\ IF d_init'
       THEN pc' = "classify" /\ UNCHANGED result
       ELSE /\ pc' = "done"
            /\ result' = [NoResult EXCEPT !.kind = "init_failed", !.has_error = TRUE]
    /\ UNCHANGED <<ctx, cfg_disabled, classification, chain, idx, calls, list_calls,
                   router_resp, replies, last_kind, nreq, terminal>>
    /\ UNCHANGED <<tvars, lvars, gvars, kvars>>

\* classify_task and the construction of the chain.
Classify(chat) ==
    /\ pc = "classify"
    /\ IF ~d_init
       THEN /\ classification' = "None"
            /\ chain' = RolesToTry("None")
            /\ idx' = 1
            /\ pc' = "walk"
            /\ UNCHANGED <<calls, router_resp>>
       ELSE /\ calls' = Append(calls, "router")
            /\ IF ChatIssued("router") /\ chat.kind = "hang"
               THEN /\ pc' = "hung"
                    /\ UNCHANGED <<classification, chain, idx, router_resp>>
               ELSE /\ router_resp' = get_completion_by_role("router", chat)
                    /\ classification' = ClassifyLabel(router_resp')
                    /\ chain' = RolesToTry(classification')
                    /\ idx' = 1
                    /\ pc' = "walk"
    /\ UNCHANGED <<ctx, d_init, mm_init, is_connected, llm_enabled, cfg_disabled,
                   list_calls, replies, result, last_kind, nreq, terminal>>
    /\ UNCHANGED <<tvars, lvars, gvars, kvars>>

\* One turn of the for loop: _get_specialist_response for chain[idx], and the
\* return that follows the loop when it ends.
Attempt(chat) ==
    /\ pc = "walk"
    /\ idx \in 1..Len(chain)
    /\ LET role == chain[idx]
           called == d_init
           resp == IF called THEN get_completion_by_role(role, chat) ELSE NoResponse
       IN  /\ calls' = IF called THEN Append(calls, role) ELSE calls
           /\ IF called /\ ChatIssued(role) /\ chat.kind = "hang"
              THEN /\ pc' = "hung"
                   /\ UNCHANGED <<idx, replies, result>>
              ELSE /\ replies' = IF called THEN Append(replies, resp) ELSE replies
                   /\ IF ValidResponse(resp)
                      THEN /\ pc' = "done"
                           /\ idx' = idx
                           /\ result' = [kind |-> "ok",
                                         classification |-> classification,
                                         has_content |-> TRUE,
                                         content |-> resp.content,
                                         role |-> role,
                                         model |-> ModelOf(role),
                                         chain |-> <<>>,
                                         has_error |-> FALSE]
                      ELSE /\ idx' = idx + 1
                           /\ IF ChainExhausted(idx', chain)
                              THEN /\ pc' = "done"
                                   /\ result' = AllFailedResult(classification, chain)
                              ELSE /\ pc' = "walk"
                                   /\ UNCHANGED result
    /\ terminal' = IF pc' = "done" THEN terminal + 1 ELSE terminal
    /\ UNCHANGED <<ctx, d_init, mm_init, is_connected, llm_enabled, cfg_disabled,
                   classification, chain, list_calls, router_resp, last_kind, nreq>>
    /\ UNCHANGED <<tvars, lvars, gvars, kvars>>

\* The caller takes the result; the locals of the call are gone.
Return ==
    /\ pc = "done"
    /\ pc' = "idle"
    /\ last_kind' = result.kind
    /\ nreq' = nreq + 1
    /\ classification' = "None"
    /\ chain' = <<>>
    /\ idx' = 0
    /\ calls' = <<>>
    /\ list_calls' = 0
    /\ router_resp' = NoResponse
    /\ replies' = <<>>
    /\ result' = NoResult
    /\ UNCHANGED <<ctx, d_init, mm_init, is_connected, llm_enabled, cfg_disabled, terminal>>
    /\ UNCHANGED <<tvars, lvars, gvars, kvars>>

Next ==
    \/ \E c \in CtxKinds : Start(c)
    \/ \E reachable \in BOOLEAN, available \in AvailableChoices : Connect(reachable, available)
    \/ \E chat \in ChatOutcomes(RouterContents) : Classify(chat)
    \/ \E chat \in ChatOutcomes(SpecialistContents) : Attempt(chat)
    \/ Return

Spec == Init /\ [][Next]_vars

\* ---- ModelManager called on its own ----
\* ModelManager.initialize_clients from connect() on, when not yet initialized
CallInitializeClients(reachable, available) ==
    /\ nqueries' = nqueries + 1
    /\ IF mm_init
       THEN UNCHANGED <<is_connected, llm_enabled, mm_init>>
       ELSE /\ is_connected' = reachable
            /\ llm_enabled' = EnabledAfterConnect(reachable, available)
            /\ mm_init' = initialize_clients(connect(reachable, available))
    /\ UNCHANGED <<pc, ctx, d_init, cfg_disabled, classification, chain, idx, calls,
                   list_calls, router_resp, replies, result, last_kind, nreq, terminal,
                   answer>>
    /\ UNCHANGED <<tvars, lvars, hvars, qvars, ivars, kvars>>

\* a call of get_completion_by_role that returns
CallCompletion(role, chat) ==
    /\ nqueries' = nqueries + 1
    /\ answer' = [query |-> "get_completion_by_role", role |-> role,
                  chat |-> chat.kind, generated |-> GeneratesResponse(role),
                  response |-> get_completion_by_role(role, chat)]
    /\ UNCHANGED <<dvars, tvars, lvars, hvars, qvars, ivars, kvars>>

\* the roles and the outcomes of the client the manager is explored with
ManagerRoles == {"router", "senior_developer", "unknown_role"}
ManagerChats == {c \in ChatOutcomes(SpecialistContents) : c.kind # "hang"}

ManagerNext ==
    \/ \E reachable \in BOOLEAN, available \in AvailableChoices :
           /\ nqueries < MaxManagerCalls
           /\ CallInitializeClients(reachable, available)
    \/ \E role \in ManagerRoles, chat \in ManagerChats :
           /\ nqueries < MaxManagerCalls
           /\ CallCompletion(role, chat)

ManagerSpec == Init /\ [][ManagerNext]_vars

\* ---- initialize() called by concurrent process_request tasks ----
\* CodingDirector.initialize up to the await on client.list() inside
\* ModelManager.initialize_clients; with both flags set it returns at once
initialize_begin(t) ==
    /\ init_pc[t] = "idle"
    /\ IF ~mm_init
       THEN \* 116-119 or 127-131: initialize_clients passes its own test (34)
            /\ init_pc' = [init_pc EXCEPT ![t] = "connecting"]
            /\ connect_runs' = connect_runs + 1
            /\ UNCHANGED d_init
       ELSE /\ init_pc' = [init_pc EXCEPT ![t] = "done"]
            /\ d_init' = (IF ~d_init THEN mm_init ELSE d_init)
            /\ UNCHANGED connect_runs
    /\ UNCHANGED <<pc, ctx, mm_init, is_connected, llm_enabled, cfg_disabled,
                   classification, chain, idx, calls, list_calls, router_resp, replies,
                   result, last_kind, nreq, terminal, connect_failures>>
    /\ UNCHANGED <<tvars, lvars, hvars, qvars, kvars, yvars>>

\* client.list() completes: the rest of connect(), initialize_clients() and
\* initialize()
initialize_resume(t, reachable, available) ==
    /\ init_pc[t] = "connecting"
    /\ init_pc' = [init_pc EXCEPT ![t] = "done"]
    /\ is_connected' = reachable
    /\ llm_enabled' = EnabledAfterConnect(reachable, available)
    /\ mm_init' = initialize_clients(connect(reachable, available))
    /\ d_init' = mm_init'
    /\ connect_failures' = connect_failures + (IF mm_init' THEN 0 ELSE 1)
    /\ UNCHANGED <<pc, ctx, cfg_disabled, classification, chain, idx, calls, list_calls,
                   router_resp, replies, result, last_kind, nreq, terminal,
                   connect_runs>>
    /\ UNCHANGED <<tvars, lvars, hvars, qvars, kvars, yvars>>

InitializeNext ==
    \/ \E t \in InitTasks : initialize_begin(t)
    \/ \E t \in InitTasks, reachable \in BOOLEAN, available \in AvailableChoices :
           initialize_resume(t, reachable, available)

InitializeSpec == Init /\ [][InitializeNext]_vars

(***************************************************************************)
(* PerformanceTracker                                                      *)
(*                                                                         *)
(* The metrics are Python floats; here they are exact fractions <<n, d>>   *)
(* with d > 0 in lowest terms, so the running-average formula is computed  *)
(* and compared exactly (floating-point rounding is not modelled).         *)
(***************************************************************************)
Abs(x) == IF x < 0 THEN -x ELSE x

RECURSIVE GCD(_, _)
GCD(a, b) == IF b = 0 THEN a ELSE GCD(b, a % b)

Frac(n, d) ==
    LET g == GCD(Abs(n), d)
    IN  IF n = 0 THEN <<0, 1>> ELSE <<n \div g, d \div g>>

FracOfInt(i) == <<i, 1>>
FracAdd(x, y) == Frac(x[1] * y[2] + y[1] * x[2], x[2] * y[2])
FracMulInt(x, i) == Frac(x[1] * i, x[2])
FracDivInt(x, i) == Frac(x[1], x[2] * i)

\* models whose interactions are recorded, and what is recorded
TrackedModels == {"deepseek-coder-v2:16b-lite-instruct", "mathstral:7b"}
ResponseTimes == {0, 1000, 1400}
NoRating == [given |-> FALSE, value |-> 0]
Ratings == {NoRating, [given |-> TRUE, value |-> 4]}

\* mutant: a new entry starts with one sample already counted
NewMetrics_SizeOne ==
    [success_rate |-> <<0, 1>>, avg_response_time_ms |-> <<0, 1>>,
     user_satisfaction |-> <<0, 1>>, accuracy_score |-> <<0, 1>>,
     efficiency_score |-> <<0, 1>>, sample_size |-> 1]

\* PerformanceMetrics(...) as record_interaction creates it
NewMetrics ==
    [success_rate |-> <<0, 1>>, avg_response_time_ms |-> <<0, 1>>,
     user_satisfaction |-> <<0, 1>>, accuracy_score |-> <<0, 1>>,
     efficiency_score |-> <<0, 1>>, sample_size |-> 0]

\* mutant: the old average is not weighted by the old sample size
RunningAverage_Unweighted(old_avg, old_size, value, new_size) ==
    FracDivInt(FracAdd(old_avg, value), new_size)

\* (old_avg * old_size + value) / new_size
RunningAverage(old_avg, old_size, value, new_size) ==
    FracDivInt(FracAdd(FracMulInt(old_avg, old_size), value), new_size)

\* mutant: every call works on a fresh entry
CurrentMetrics_Fresh(all_metrics, model_name) == NewMetrics

\* metrics = self.model_metrics[model_name], created first when missing
CurrentMetrics(all_metrics, model_name) ==
    IF model_name \in DOMAIN all_metrics THEN all_metrics[model_name] ELSE NewMetrics

\* deque(maxlen=1000) of metric_history
HistoryCapacity == 1000

\* deque.append: at capacity the oldest value leaves
HistoryAppend(d, v) ==
    IF Len(d) = HistoryCapacity THEN Append(Tail(d), v) ELSE Append(d, v)

\* f"{model_name}_{name}"
HistoryKey(model_name, name) == model_name \o "_" \o name

\* metric_history.get(key, [])
HistoryOf(history, key) == IF key \in DOMAIN history THEN history[key] ELSE <<>>

\* self.metric_history[key].append(value), the deque created when missing
RecordIn(history, key, value) ==
    [k \in DOMAIN history \cup {key} |->
         IF k = key THEN HistoryAppend(HistoryOf(history, key), value) ELSE history[k]]

\* the key record_interaction keeps the ratings under
SatisfactionKey(model_name) == HistoryKey(model_name, "satisfaction")

\* number of interactions recorded so far
Recorded == rec_n["deepseek-coder-v2:16b-lite-instruct"] + rec_n["mathstral:7b"]

\* PerformanceTracker.record_interaction
record_interaction(model_name, response_time_ms, success, user_rating) ==
    LET metrics == CurrentMetrics(model_metrics, model_name)
        old_size == metrics.sample_size
        new_size == old_size + 1
        one == IF success THEN <<1, 1>> ELSE <<0, 1>>
        updated ==
            [success_rate |->
                 RunningAverage(metrics.success_rate, old_size, one, new_size),
             avg_response_time_ms |->
                 RunningAverage(metrics.avg_response_time_ms, old_size,
                                FracOfInt(response_time_ms), new_size),
             user_satisfaction |->
                 IF user_rating.given
                 THEN RunningAverage(metrics.user_satisfaction, old_size,
                                     FracOfInt(user_rating.value), new_size)
                 ELSE metrics.user_satisfaction,
             accuracy_score |-> metrics.accuracy_score,
             efficiency_score |->
                 IF response_time_ms > 0
                 THEN RunningAverage(metrics.efficiency_score, old_size,
                                     IF success THEN Frac(1000, response_time_ms)
                                     ELSE <<0, 1>>,
                                     new_size)
                 ELSE metrics.efficiency_score,
             sample_size |-> new_size]
    IN  /\ model_metrics' =
               [m \in DOMAIN model_metrics \cup {model_name} |->
                    IF m = model_name THEN updated ELSE model_metrics[m]]
        /\ rec_n' = [rec_n EXCEPT ![model_name] = @ + 1]
        /\ rec_succ' = [rec_succ EXCEPT ![model_name] = @ + (IF success THEN 1 ELSE 0)]
        /\ rec_rt_sum' = [rec_rt_sum EXCEPT ![model_name] = @ + response_time_ms]
        /\ rec_rating_n' = [rec_rating_n EXCEPT ![model_name] =
                                @ + (IF user_rating.given THEN 1 ELSE 0)]
        /\ rec_rating_sum' = [rec_rating_sum EXCEPT ![model_name] =
                                  @ + (IF user_rating.given THEN user_rating.value ELSE 0)]
        /\ metric_order' = IF model_name \in DOMAIN model_metrics THEN metric_order
                           ELSE Append(metric_order, model_name)
        /\ metric_history' =
               LET h1 == RecordIn(metric_history,
                                  HistoryKey(model_name, "success_rate"),
                                  updated.success_rate)
                   h2 == RecordIn(h1, HistoryKey(model_name, "response_time"),
                                  FracOfInt(response_time_ms))
               IN  IF user_rating.given
                   THEN RecordIn(h2, SatisfactionKey(model_name),
                                 FracOfInt(user_rating.value))
                   ELSE h2
        /\ UNCHANGED <<dvars, lvars, gvars>>

TrackerNext ==
    \E m \in TrackedModels, rt \in ResponseTimes, ok \in BOOLEAN, rating \in Ratings :
        /\ Recorded < MaxInteractions
        /\ record_interaction(m, rt, ok, rating)
        /\ UNCHANGED kvars

TrackerInit ==
    /\ Constructed
    /\ cfg_disabled = {}
    /\ confidence_threshold = DefaultThreshold
    /\ timeout_seconds = [m \in Models |-> DefaultTimeout]

TrackerSpec == TrackerInit /\ [][TrackerNext]_vars

\* ---- record_interaction called by concurrent request tasks ----
\* a request task obtained its outcome and is about to record it
spawn(model_name, response_time_ms, success) ==
    LET call == [id |-> Len(spawned) + 1, model_name |-> model_name,
                 response_time_ms |-> response_time_ms, success |-> success]
    IN  /\ Len(spawned) < MaxCallers
        /\ spawned' = Append(spawned, call)
        /\ pending' = pending \cup {call}
        /\ UNCHANGED <<dvars, tvars, lvars, gvars>>

\* the event loop runs one of the tasks: record_interaction is a plain
\* function without await, so the whole call runs before any other task
task_records(call) ==
    /\ call \in pending
    /\ pending' = pending \ {call}
    /\ UNCHANGED spawned
    /\ record_interaction(call.model_name, call.response_time_ms, call.success,
                          NoRating)

\* the response times the concurrent calls report
CallerResponseTimes == {0, 1000}

CallersNext ==
    \/ \E m \in TrackedModels, rt \in CallerResponseTimes, ok \in BOOLEAN :
           spawn(m, rt, ok)
    \/ \E call \in pending : task_records(call)

CallersSpec == TrackerInit /\ [][CallersNext]_vars

(***************************************************************************)
(* AdaptiveRoutingEngine (src/learning_adaptation.py).  Confidences, the   *)
(* confidence threshold and estimated_complexity are counted in hundredths, *)
(* times in seconds.  The pattern store is the engine's supabase_client.    *)
(***************************************************************************)
math_keywords ==
    {<<"a", "l", "g", "o", "r", "i", "t", "h", "m">>,
     <<"c", "o", "m", "p", "l", "e", "x", "i", "t", "y">>,
     <<"o", "p", "t", "i", "m", "i", "z", "e">>,
     <<"m", "a", "t", "h", "e", "m", "a", "t", "i", "c", "a", "l">>,
     <<"c", "a", "l", "c", "u", "l", "a", "t", "e">>,
     <<"s", "o", "r", "t">>,
     <<"s", "e", "a", "r", "c", "h">>,
     <<"g", "r", "a", "p", "h">>,
     <<"t", "r", "e", "e">>,
     <<"d", "y", "n", "a", "m", "i", "c", " ", "p", "r", "o", "g", "r", "a", "m", "m", "i", "n", "g">>,
     <<"r", "e", "c", "u", "r", "s", "i", "o", "n">>}

architecture_keywords ==
    {<<"d", "e", "s", "i", "g", "n">>,
     <<"a", "r", "c", "h", "i", "t", "e", "c", "t", "u", "r", "e">>,
     <<"s", "y", "s", "t", "e", "m">>,
     <<"s", "c", "a", "l", "a", "b", "l", "e">>,
     <<"m", "i", "c", "r", "o", "s", "e", "r", "v", "i", "c", "e", "s">>,
     <<"p", "a", "t", "t", "e", "r", "n">>,
     <<"s", "t", "r", "u", "c", "t", "u", "r", "e">>,
     <<"f", "r", "a", "m", "e", "w", "o", "r", "k">>}

debug_keywords ==
    {<<"d", "e", "b", "u", "g">>,
     <<"e", "r", "r", "o", "r">>,
     <<"f", "i", "x">>,
     <<"i", "s", "s", "u", "e">>,
     <<"p", "r", "o", "b", "l", "e", "m">>,
     <<"b", "u", "g">>,
     <<"t", "r", "o", "u", "b", "l", "e", "s", "h", "o", "o", "t">>}

complexity_words ==
    {<<"c", "o", "m", "p", "l", "e", "x">>,
     <<"a", "d", "v", "a", "n", "c", "e", "d">>,
     <<"s", "o", "p", "h", "i", "s", "t", "i", "c", "a", "t", "e", "d">>}

\* kw in s, for str
Contains(kw, s) ==
    \E i \in 1..(Len(s) - Len(kw) + 1) : SubSeq(s, i, i + Len(kw) - 1) = kw

\* sum(1 for kw in kws if kw in s)
Score(kws, s) == Cardinality({kw \in kws : Contains(kw, s)})

Min(a, b) == IF a <= b THEN a ELSE b
Max(a, b) == IF a >= b THEN a ELSE b

\* AdaptiveRoutingEngine._extract_features, for a context that is a mapping;
\* domain_hints is the number of hints of the context
_extract_features(user_prompt, context) ==
    LET prompt_lower == lower(user_prompt)
        m == Score(math_keywords, prompt_lower)
        a == Score(architecture_keywords, prompt_lower)
        d == Score(debug_keywords, prompt_lower)
        c == Score(complexity_words, prompt_lower)
    IN  [math_score |-> m, architecture_score |-> a, debug_score |-> d,
         complexity_indicators |-> c,
         estimated_complexity |-> Min(100, (3 * m + 4 * a + 3 * c) * 2),
         domain_hints |-> context.domain_hints]

\* AdaptiveRoutingEngine._create_feature_signature
_create_feature_signature(features) ==
    <<features.math_score, features.architecture_score, features.debug_score,
      features.estimated_complexity \div 10, features.domain_hints>>

\* mutant: the math rule fires from one math keyword on
_get_rule_recommendation_MathFromOne(features) ==
    IF features.math_score >= 1
    THEN Recommendation("mathstral:7b", 80)
    ELSE IF features.architecture_score >= 2 \/ features.estimated_complexity > 70
    THEN Recommendation("wizardcoder:13b-python", 70)
    ELSE IF features.debug_score >= 1
    THEN Recommendation("codellama:13b", 60)
    ELSE Recommendation("deepseek-coder-v2:16b-lite-instruct", 50)

\* AdaptiveRoutingEngine._get_rule_recommendation
_get_rule_recommendation(features) ==
    IF features.math_score >= 2
    THEN Recommendation("mathstral:7b", 80)
    ELSE IF features.architecture_score >= 2 \/ features.estimated_complexity > 70
    THEN Recommendation("wizardcoder:13b-python", 70)
    ELSE IF features.debug_score >= 1
    THEN Recommendation("codellama:13b", 60)
    ELSE Recommendation("deepseek-coder-v2:16b-lite-instruct", 50)

\* AdaptiveRoutingEngine._get_fallback_models
_get_fallback_models(primary_model) ==
    CASE primary_model = "mathstral:7b" ->
             <<"wizardcoder:13b-python", "deepseek-coder-v2:16b-lite-instruct">>
      [] primary_model = "deepseek-coder-v2:16b-lite-instruct" ->
             <<"codellama:13b", "wizardcoder:13b-python">>
      [] primary_model = "codellama:13b" ->
             <<"deepseek-coder-v2:16b-lite-instruct", "wizardcoder:13b-python">>
      [] primary_model = "wizardcoder:13b-python" ->
             <<"deepseek-coder-v2:16b-lite-instruct", "codellama:13b">>
      [] OTHER -> <<"deepseek-coder-v2:16b-lite-instruct">>

\* mutant: a learned recommendation must exceed the threshold to be used
UsePattern_Strict(pattern_rec, threshold) ==
    pattern_rec.present /\ pattern_rec.confidence > threshold

\* pattern_rec and pattern_rec['confidence'] >= self.confidence_threshold
UsePattern(pattern_rec, threshold) ==
    pattern_rec.present /\ pattern_rec.confidence >= threshold

\* AdaptiveRoutingEngine._combine_recommendations
_combine_recommendations(pattern_rec, rule_rec, features, threshold) ==
    IF UsePattern(pattern_rec, threshold)
    THEN [model |-> pattern_rec.model, confidence |-> pattern_rec.confidence,
          source |-> "learned_patterns", confirmed |-> FALSE,
          fallback_models |-> _get_fallback_models(pattern_rec.model),
          has_features |-> TRUE, features |-> features]
    ELSE LET agree == pattern_rec.present /\ pattern_rec.model = rule_rec.model
         IN  [model |-> rule_rec.model,
              confidence |-> IF agree THEN Min(100, rule_rec.confidence + 20)
                             ELSE rule_rec.confidence,
              source |-> "rule_based", confirmed |-> agree,
              fallback_models |-> _get_fallback_models(rule_rec.model),
              has_features |-> TRUE, features |-> features]

\* mutant: the fallback decision names a single fallback model
_get_fallback_routing_OneFallback ==
    [model |-> "deepseek-coder-v2:16b-lite-instruct", confidence |-> 30,
     source |-> "fallback", confirmed |-> FALSE,
     fallback_models |-> <<"codellama:13b">>,
     has_features |-> FALSE, features |-> NoFeatures]

\* AdaptiveRoutingEngine._get_fallback_routing
_get_fallback_routing ==
    [model |-> "deepseek-coder-v2:16b-lite-instruct", confidence |-> 30,
     source |-> "fallback", confirmed |-> FALSE,
     fallback_models |-> <<"codellama:13b", "wizardcoder:13b-python">>,
     has_features |-> FALSE, features |-> NoFeatures]

\* timedelta.seconds of a non-negative timedelta: the seconds within the day
SecondsPerDay == 86400
CacheSeconds == 300
Fresh(timestamp, t) == ((t - timestamp) % SecondsPerDay) < CacheSeconds

\* the cache holds a usable entry for the signature
CacheHit(cache, sig, t) == sig \in DOMAIN cache /\ Fresh(cache[sig].timestamp, t)

\* mutant: a failing pattern store query is taken for a confident match
_get_pattern_recommendation_ErrorAsMatch(cache, sig, store, t) ==
    IF CacheHit(cache, sig, t) THEN cache[sig].recommendation
    ELSE IF store.kind = "rec" THEN Recommendation(store.model, store.confidence)
    ELSE IF store.kind = "error" THEN Recommendation("wizardcoder:13b-python", 100)
    ELSE NoRecommendation

\* AdaptiveRoutingEngine._get_pattern_recommendation: the cached
\* recommendation, else what supabase_client.get_routing_recommendation
\* returned; None when it returned nothing or anything in the lookup raised
_get_pattern_recommendation(cache, sig, store, t) ==
    IF CacheHit(cache, sig, t) THEN cache[sig].recommendation
    ELSE IF store.kind = "rec" THEN Recommendation(store.model, store.confidence)
    ELSE NoRecommendation

\* ---- inputs of the routing engine ----
PromptMath == <<"S", "o", "r", "t", " ", "g", "r", "a", "p", "h", " ", "t", "r", "e", "e">>
PromptArchitecture == <<"d", "e", "s", "i", "g", "n", " ", "s", "y", "s", "t", "e", "m">>
PromptDebug == <<"f", "i", "x", " ", "s", "o", "r", "t">>
PromptGeneral == <<"h", "e", "l", "l", "o">>
PromptMathArchitecture ==
    <<"s", "o", "r", "t", " ", "t", "r", "e", "e", " ", "d", "e", "s", "i", "g", "n", " ", "s", "y", "s", "t", "e", "m">>

\* context: None, or a mapping with that many domain_hints
NoneContext == [is_mapping |-> FALSE, domain_hints |-> 0]
MappingContext(n) == [is_mapping |-> TRUE, domain_hints |-> n]

\* the calls of get_routing_decision explored
RoutingRequests ==
    {[user_prompt |-> PromptMath, context |-> MappingContext(2)],
     [user_prompt |-> PromptArchitecture, context |-> MappingContext(0)],
     [user_prompt |-> PromptDebug, context |-> MappingContext(0)],
     [user_prompt |-> PromptGeneral, context |-> MappingContext(0)],
     [user_prompt |-> PromptMathArchitecture, context |-> MappingContext(0)],
     [user_prompt |-> PromptGeneral, context |-> NoneContext]}

\* what supabase_client.get_routing_recommendation does when it is awaited
StoreOutcomes ==
    {[kind |-> "none", model |-> "none", confidence |-> 0],
     [kind |-> "error", model |-> "none", confidence |-> 0],
     [kind |-> "rec", model |-> "deepseek-coder-v2:16b-lite-instruct", confidence |-> 90],
     [kind |-> "rec", model |-> "deepseek-coder-v2:16b-lite-instruct", confidence |-> 50],
     [kind |-> "rec", model |-> "mathstral:7b", confidence |-> 75]}

\* config.learning.confidence_threshold
ConfiguredThresholds == {30, DefaultThreshold, 90}

\* the wall clock moves by a few minutes or by a day
ClockSteps == {150, SecondsPerDay}

\* features = self._extract_features(user_prompt, context) of each call explored
ExtractedFeatures ==
    [r \in RoutingRequests |-> _extract_features(r.user_prompt, r.context)]

\* AdaptiveRoutingEngine.get_routing_decision
get_routing_decision(request, store) ==
    /\ ndecisions' = ndecisions + 1
    /\ IF ~request.context.is_mapping
       THEN \* context.get raises in _extract_features: the except branch
            /\ decision' = _get_fallback_routing
            /\ last_store' = "unreached"
            /\ last_age' = -1
            /\ last_pattern' = NoRecommendation
            /\ last_rule' = NoRecommendation
            /\ UNCHANGED pattern_cache
       ELSE LET features == ExtractedFeatures[request]
                sig == _create_feature_signature(features)
                hit == CacheHit(pattern_cache, sig, now)
                pattern_rec ==
                    _get_pattern_recommendation(pattern_cache, sig, store, now)
                rule_rec == _get_rule_recommendation(features)
            IN  /\ decision' = _combine_recommendations(pattern_rec, rule_rec,
                                     features, confidence_threshold)
                /\ last_store' = IF hit THEN "cached" ELSE store.kind
                /\ last_age' = IF hit THEN now - pattern_cache[sig].timestamp ELSE -1
                /\ last_pattern' = pattern_rec
                /\ last_rule' = rule_rec
                /\ pattern_cache' =
                       IF ~hit /\ store.kind = "rec"
                       THEN [g \in DOMAIN pattern_cache \cup {sig} |->
                                IF g = sig
                                THEN [recommendation |-> pattern_rec, timestamp |-> now]
                                ELSE pattern_cache[g]]
                       ELSE pattern_cache
    /\ UNCHANGED <<confidence_threshold, routing_accuracy_history, rhist, cvars, avars>>
    /\ UNCHANGED <<dvars, tvars, gvars, kvars>>

\* deque(maxlen=1000).append
AccuracyCapacity == 1000

DequeAppend(q, x, maxlen) ==
    IF Len(q) < maxlen THEN Append(q, x) ELSE Append(Tail(q), x)

\* mutant: the outcome is appended and the cache cleared before the store is
\* asked
update_routing_patterns_AppendsFirst(routing_decision, success, store_ok) ==
    /\ nreports' = nreports + 1
    /\ report_store_ok' = store_ok
    /\ IF routing_decision.has_features
       THEN /\ routing_accuracy_history' =
                   DequeAppend(routing_accuracy_history,
                               IF success THEN 1 ELSE 0, AccuracyCapacity)
            /\ reported' = Append(reported, IF success THEN 1 ELSE 0)
            /\ pattern_cache' = <<>>
       ELSE UNCHANGED <<routing_accuracy_history, reported, pattern_cache>>
    /\ UNCHANGED <<confidence_threshold, decision, last_store, last_pattern,
                   last_rule, ndecisions, last_age, cvars, avars>>
    /\ UNCHANGED <<dvars, tvars, gvars, kvars>>

\* AdaptiveRoutingEngine.update_routing_patterns; store_ok:
\* update_routing_pattern of the pattern store returned without raising
update_routing_patterns(routing_decision, success, store_ok) ==
    /\ nreports' = nreports + 1
    /\ report_store_ok' = store_ok
    /\ IF routing_decision.has_features /\ store_ok
       THEN /\ routing_accuracy_history' =
                   DequeAppend(routing_accuracy_history,
                               IF success THEN 1 ELSE 0, AccuracyCapacity)
            /\ reported' = Append(reported, IF success THEN 1 ELSE 0)
            /\ pattern_cache' = <<>>
       ELSE UNCHANGED <<routing_accuracy_history, reported, pattern_cache>>
    /\ UNCHANGED <<confidence_threshold, decision, last_store, last_pattern,
                   last_rule, ndecisions, last_age, cvars, avars>>
    /\ UNCHANGED <<dvars, tvars, gvars, kvars>>

\* time passes
Tick(dt) ==
    /\ nticks < MaxTicks
    /\ nticks' = nticks + 1
    /\ now' = now + dt
    /\ UNCHANGED <<dvars, tvars, rvars, avars, gvars, kvars>>

\* events of the exploration so far
RoutingSteps == ndecisions + nreports + nticks

RoutingNext ==
    \/ \E r \in RoutingRequests, store \in StoreOutcomes :
           /\ RoutingSteps < MaxRoutingSteps
           /\ ndecisions < MaxDecisions
           /\ get_routing_decision(r, store)
    \/ \E success \in BOOLEAN, store_ok \in BOOLEAN :
           \* the caller reports on the decision it was given
           /\ RoutingSteps < MaxRoutingSteps
           /\ nreports < MaxOutcomes
           /\ decision # NoDecision
           /\ update_routing_patterns(decision, success, store_ok)
    \/ \E dt \in ClockSteps : RoutingSteps < MaxRoutingSteps /\ Tick(dt)

RoutingInit ==
    /\ Constructed
    /\ cfg_disabled = {}
    /\ confidence_threshold \in ConfiguredThresholds
    /\ timeout_seconds = [m \in Models |-> DefaultTimeout]

RoutingSpec == RoutingInit /\ [][RoutingNext]_vars

\* the decision reported on: a rule-based decision for a plain prompt
ReportedDecision ==
    _combine_recommendations(NoRecommendation,
                             Recommendation("deepseek-coder-v2:16b-lite-instruct", 50),
                             NoFeatures, DefaultThreshold)

\* ---- concurrent calls: every await on the pattern store is a point ----
\* ---- where the task is suspended and other tasks run               ----
ConcurrentRequests ==
    {[user_prompt |-> PromptGeneral, context |-> MappingContext(0)],
     [user_prompt |-> PromptDebug, context |-> MappingContext(0)]}
ConcurrentAnswers ==
    {[kind |-> "none", model |-> "none", confidence |-> 0],
     [kind |-> "rec", model |-> "deepseek-coder-v2:16b-lite-instruct", confidence |-> 90]}

\* get_routing_decision up to the await of _get_pattern_recommendation on
\* the store (379); a cache hit returns without suspending
decide_begin(t, request) ==
    LET features == ExtractedFeatures[request]
        sig == _create_feature_signature(features)
        rule_rec == _get_rule_recommendation(features)
    IN  /\ task[t].pc = "idle"
        /\ IF CacheHit(pattern_cache, sig, now)
           THEN /\ task' = [task EXCEPT ![t].pc = "done"]
                /\ ndecisions' = ndecisions + 1
                /\ decision' = _combine_recommendations(pattern_cache[sig].recommendation,
                                         rule_rec, features, confidence_threshold)
                /\ last_store' = "cached"
                /\ last_age' = now - pattern_cache[sig].timestamp
                /\ last_pattern' = pattern_cache[sig].recommendation
                /\ last_rule' = rule_rec
           ELSE /\ task' = [task EXCEPT ![t].pc = "querying", ![t].signature = sig,
                                        ![t].features = features]
                /\ UNCHANGED <<ndecisions, decision, last_store, last_age, last_pattern,
                               last_rule>>
        /\ UNCHANGED <<confidence_threshold, pattern_cache, routing_accuracy_history,
                       rhist, cvars, avars>>
        /\ UNCHANGED <<store_version, cache_fetched, completed_version>>
        /\ UNCHANGED <<dvars, tvars, hvars, ivars, kvars, yvars>>

\* the pattern store evaluates the query of a suspended get_routing_decision
store_answers(t, store) ==
    /\ task[t].pc = "querying"
    /\ task' = [task EXCEPT ![t].pc = "answered", ![t].answer = store,
                            ![t].version = store_version]
    /\ UNCHANGED <<store_version, cache_fetched, completed_version>>
    /\ UNCHANGED <<dvars, tvars, lvars, hvars, ivars, kvars, yvars>>

\* get_routing_decision from the await on: the answer is cached (385-398),
\* then the recommendations are combined and the decision returned
decide_resume(t) ==
    LET sig == task[t].signature
        features == task[t].features
        pattern_rec == _get_pattern_recommendation(<<>>, sig, task[t].answer, now)
        rule_rec == _get_rule_recommendation(features)
        cached == task[t].answer.kind = "rec"
    IN  /\ task[t].pc = "answered"
        /\ task' = [task EXCEPT ![t].pc = "done"]
        /\ pattern_cache' =
               IF cached
               THEN [g \in DOMAIN pattern_cache \cup {sig} |->
                        IF g = sig
                        THEN [recommendation |-> pattern_rec, timestamp |-> now]
                        ELSE pattern_cache[g]]
               ELSE pattern_cache
        /\ cache_fetched' =
               IF cached
               THEN [g \in DOMAIN cache_fetched \cup {sig} |->
                        IF g = sig THEN task[t].version ELSE cache_fetched[g]]
               ELSE cache_fetched
        /\ ndecisions' = ndecisions + 1
        /\ decision' = _combine_recommendations(pattern_rec, rule_rec, features,
                                                confidence_threshold)
        /\ last_store' = task[t].answer.kind
        /\ last_age' = -1
        /\ last_pattern' = pattern_rec
        /\ last_rule' = rule_rec
        /\ UNCHANGED <<confidence_threshold, routing_accuracy_history, rhist, cvars,
                       avars>>
        /\ UNCHANGED <<store_version, completed_version>>
        /\ UNCHANGED <<dvars, tvars, hvars, ivars, kvars, yvars>>

\* update_routing_patterns up to the await of the store update (520)
report_begin(t, routing_decision, success) ==
    /\ task[t].pc = "idle"
    /\ IF routing_decision.has_features
       THEN /\ task' = [task EXCEPT ![t].pc = "updating", ![t].success = success]
            /\ UNCHANGED <<nreports, report_store_ok>>
       ELSE /\ task' = [task EXCEPT ![t].pc = "done"]
            /\ nreports' = nreports + 1
            /\ report_store_ok' = TRUE
    /\ UNCHANGED <<confidence_threshold, pattern_cache, routing_accuracy_history,
                   decision, last_store, last_pattern, last_rule, ndecisions, last_age,
                   reported, cvars, avars>>
    /\ UNCHANGED <<store_version, cache_fetched, completed_version>>
    /\ UNCHANGED <<dvars, tvars, hvars, ivars, kvars, yvars>>

\* the pattern store applies the update of a suspended
\* update_routing_patterns, or fails
store_updates(t, store_ok) ==
    /\ task[t].pc = "updating"
    /\ store_version' = IF store_ok THEN store_version + 1 ELSE store_version
    /\ task' = [task EXCEPT ![t].pc = "updated", ![t].store_ok = store_ok,
                            ![t].version = store_version']
    /\ UNCHANGED <<cache_fetched, completed_version>>
    /\ UNCHANGED <<dvars, tvars, lvars, hvars, ivars, kvars, yvars>>

\* update_routing_patterns from the await on (529-537)
report_resume(t) ==
    /\ task[t].pc = "updated"
    /\ task' = [task EXCEPT ![t].pc = "done"]
    /\ nreports' = nreports + 1
    /\ report_store_ok' = task[t].store_ok
    /\ IF task[t].store_ok
       THEN /\ routing_accuracy_history' =
                   DequeAppend(routing_accuracy_history,
                               IF task[t].success THEN 1 ELSE 0, AccuracyCapacity)
            /\ reported' = Append(reported, IF task[t].success THEN 1 ELSE 0)
            /\ pattern_cache' = <<>>
            /\ cache_fetched' = <<>>
            /\ completed_version' = Max(completed_version, task[t].version)
       ELSE UNCHANGED <<routing_accuracy_history, reported, pattern_cache,
                        cache_fetched, completed_version>>
    /\ UNCHANGED <<confidence_threshold, decision, last_store, last_pattern,
                   last_rule, ndecisions, last_age, cvars, avars>>
    /\ UNCHANGED store_version
    /\ UNCHANGED <<dvars, tvars, hvars, ivars, kvars, yvars>>

ConcurrentNext ==
    \/ \E t \in RoutingTasks, r \in ConcurrentRequests : decide_begin(t, r)
    \/ \E t \in RoutingTasks, store \in ConcurrentAnswers : store_answers(t, store)
    \/ \E t \in RoutingTasks : decide_resume(t)
    \/ \E t \in RoutingTasks, success \in BOOLEAN :
           report_begin(t, ReportedDecision, success)
    \/ \E t \in RoutingTasks, store_ok \in BOOLEAN : store_updates(t, store_ok)
    \/ \E t \in RoutingTasks : report_resume(t)

ConcurrentSpec == TrackerInit /\ [][ConcurrentNext]_vars

\* ---- a long run of reported outcomes ----
\* the outcomes explored: any at the start of the run and around the
\* capacity of the history, successes in between
LongRunOutcomes(n) ==
    IF n < 2 \/ n >= AccuracyCapacity - 1 THEN BOOLEAN ELSE {TRUE}

AccuracyNext ==
    \E success \in LongRunOutcomes(nreports) :
        /\ nreports < MaxReports
        /\ update_routing_patterns(ReportedDecision, success, TRUE)

AccuracySpec == TrackerInit /\ [][AccuracyNext]_vars

(***************************************************************************)
(* SystemAdaptationEngine (src/learning_adaptation.py), with the parts of  *)
(* PerformanceTracker and AdaptiveRoutingEngine that it reads.             *)
(***************************************************************************)
FracLess(x, y) == x[1] * y[2] < y[1] * x[2]

\* sum(q), added up by halves
RECURSIVE SeqSum(_)
SeqSum(q) ==
    IF q = <<>> THEN 0
    ELSE IF Len(q) = 1 THEN q[1]
    ELSE LET half == Len(q) \div 2
         IN  SeqSum(SubSeq(q, 1, half)) + SeqSum(SubSeq(q, half + 1, Len(q)))

\* mutant: the sum is divided by the capacity of the history
get_routing_accuracy_OverCapacity(history) ==
    IF history = <<>> THEN <<0, 1>> ELSE Frac(SeqSum(history), AccuracyCapacity)

\* AdaptiveRoutingEngine.get_routing_accuracy, as a fraction

get_routing_accuracy(history) ==
    IF history = <<>> THEN <<0, 1>> ELSE Frac(SeqSum(history), Len(history))

\* PerformanceTracker.performance_thresholds, other than SUCCESS_RATE
ResponseTimeThreshold == 10000
SatisfactionThreshold == 4

\* mutant: no issue is ever more than medium
RECURSIVE identify_performance_issues_AllMedium(_, _, _)
identify_performance_issues_AllMedium(order, metrics, threshold) ==
    IF order = <<>> THEN <<>>
    ELSE LET m == Head(order)
             mm == metrics[m]
             s == IF FracLess(mm.success_rate, threshold)
                  THEN <<[model |-> m, metric |-> "success_rate",
                          severity |-> "medium"]>>
                  ELSE <<>>
             r == IF FracLess(FracOfInt(ResponseTimeThreshold), mm.avg_response_time_ms)
                  THEN <<[model |-> m, metric |-> "response_time",
                          severity |-> "medium"]>>
                  ELSE <<>>
             u == IF /\ FracLess(<<0, 1>>, mm.user_satisfaction)
                     /\ FracLess(mm.user_satisfaction, FracOfInt(SatisfactionThreshold))
                  THEN <<[model |-> m, metric |-> "user_satisfaction",
                          severity |-> "medium"]>>
                  ELSE <<>>
         IN  s \o r \o u
             \o identify_performance_issues_AllMedium(Tail(order), metrics, threshold)

\* PerformanceTracker.identify_performance_issues for the models of order,
\* which is model_metrics in insertion order
RECURSIVE identify_performance_issues(_, _, _)
identify_performance_issues(order, metrics, threshold) ==
    IF order = <<>> THEN <<>>
    ELSE LET m == Head(order)
             mm == metrics[m]
             s == IF FracLess(mm.success_rate, threshold)
                  THEN <<[model |-> m, metric |-> "success_rate",
                          severity |-> IF FracLess(mm.success_rate, <<7, 10>>)
                                       THEN "high" ELSE "medium"]>>
                  ELSE <<>>
             r == IF FracLess(FracOfInt(ResponseTimeThreshold), mm.avg_response_time_ms)
                  THEN <<[model |-> m, metric |-> "response_time",
                          severity |-> IF FracLess(<<15000, 1>>, mm.avg_response_time_ms)
                                       THEN "high" ELSE "medium"]>>
                  ELSE <<>>
             u == IF /\ FracLess(<<0, 1>>, mm.user_satisfaction)
                     /\ FracLess(mm.user_satisfaction, FracOfInt(SatisfactionThreshold))
                  THEN <<[model |-> m, metric |-> "user_satisfaction",
                          severity |-> IF FracLess(mm.user_satisfaction, <<3, 1>>)
                                       THEN "high" ELSE "medium"]>>
                  ELSE <<>>
         IN  s \o r \o u \o identify_performance_issues(Tail(order), metrics, threshold)

\* AdaptationRecommendation: type, target, priority, confidence (hundredths)
\* and whether its description mentions the response time
AdaptationRecommendation(type, target, priority, confidence, about_time) ==
    [adaptation_type |-> type, target_component |-> target,
     implementation_priority |-> priority, confidence |-> confidence,
     about_response_time |-> about_time]

\* the recommendations analyze_system_performance makes of the issues
RECURSIVE IssueRecommendations(_)
IssueRecommendations(issues) ==
    IF issues = <<>> THEN <<>>
    ELSE LET i == Head(issues)
             rec == IF i.metric = "response_time"
                    THEN <<AdaptationRecommendation("performance_tuning", i.model,
                                                    2, 70, TRUE)>>
                    ELSE IF i.metric = "success_rate"
                    THEN <<AdaptationRecommendation("prompt_enhancement", i.model,
                                                    1, 60, FALSE)>>
                    ELSE <<>>
         IN  rec \o IssueRecommendations(Tail(issues))

\* key=lambda x: (x.implementation_priority, -x.confidence)
KeyLeq(x, y) ==
    \/ x.implementation_priority < y.implementation_priority
    \/ /\ x.implementation_priority = y.implementation_priority
       /\ x.confidence >= y.confidence

\* list.sort: stable
RECURSIVE SortInsert(_, _)
SortInsert(sorted, x) ==
    IF sorted = <<>> THEN <<x>>
    ELSE IF KeyLeq(Head(sorted), x) THEN <<Head(sorted)>> \o SortInsert(Tail(sorted), x)
    ELSE <<x>> \o sorted

RECURSIVE Sort(_)
Sort(q) == IF q = <<>> THEN <<>> ELSE SortInsert(Sort(SubSeq(q, 1, Len(q) - 1)), q[Len(q)])

\* SystemAdaptationEngine.adaptation_thresholds['accuracy_threshold'], hundredths
AccuracyThreshold == 75

\* mutant: the threshold adjustment is recommended whatever else was found
analyze_system_performance_AlwaysAdjust(history, order, metrics, threshold) ==
    LET routing == IF FracLess(get_routing_accuracy(history), <<AccuracyThreshold, 100>>)
                   THEN <<AdaptationRecommendation("routing_optimization",
                                                   "routing_engine", 1, 80, FALSE)>>
                   ELSE <<>>
        found == routing \o
                 IssueRecommendations(identify_performance_issues(order, metrics, threshold))
    IN  Sort(Append(found, AdaptationRecommendation("threshold_adjustment",
                                                    "system_thresholds", 3, 50, FALSE)))

\* SystemAdaptationEngine.analyze_system_performance
analyze_system_performance(history, order, metrics, threshold) ==
    LET routing == IF FracLess(get_routing_accuracy(history), <<AccuracyThreshold, 100>>)
                   THEN <<AdaptationRecommendation("routing_optimization",
                                                   "routing_engine", 1, 80, FALSE)>>
                   ELSE <<>>
        found == routing \o
                 IssueRecommendations(identify_performance_issues(order, metrics, threshold))
        recs == IF found = <<>>
                THEN <<AdaptationRecommendation("threshold_adjustment",
                                                "system_thresholds", 3, 50, FALSE)>>
                ELSE found
    IN  Sort(recs)

\* the state an adaptation works on
EngineState ==
    [confidence_threshold |-> confidence_threshold,
     success_threshold |-> success_threshold,
     timeout_seconds |-> timeout_seconds,
     adaptation_history |-> adaptation_history,
     last_adaptation |-> last_adaptation,
     implemented |-> 0, failed |-> 0]

\* mutant: the threshold is raised whatever the accuracy
_optimize_routing_AlwaysRaise(current_threshold, history) ==
    Min(90, current_threshold + 5)

\* SystemAdaptationEngine._optimize_routing: the new confidence_threshold
_optimize_routing(current_threshold, history) ==
    IF FracLess(get_routing_accuracy(history), <<80, 100>>)
    THEN Max(50, current_threshold - 10)
    ELSE Min(90, current_threshold + 5)

\* the success rates that _adjust_thresholds averages
RECURSIVE MatureRates(_, _)
MatureRates(order, metrics) ==
    IF order = <<>> THEN <<>>
    ELSE (IF metrics[Head(order)].sample_size > 10
          THEN <<metrics[Head(order)].success_rate>> ELSE <<>>)
         \o MatureRates(Tail(order), metrics)

RECURSIVE FracSum(_)
FracSum(q) == IF q = <<>> THEN <<0, 1>> ELSE FracAdd(Head(q), FracSum(Tail(q)))

FracMax(x, y) == IF FracLess(x, y) THEN y ELSE x
FracMin(x, y) == IF FracLess(y, x) THEN y ELSE x

\* SystemAdaptationEngine._adjust_thresholds: whether it succeeded and the
\* success-rate threshold it leaves; statistics.mean raises on no data
_adjust_thresholds(order, metrics, threshold) ==
    LET rates == MatureRates(order, metrics)
    IN  IF order # <<>> /\ rates = <<>>
        THEN [ok |-> FALSE, threshold |-> threshold]
        ELSE LET avg == IF order = <<>> THEN <<4, 5>>
                        ELSE FracDivInt(FracSum(rates), Len(rates))
             IN  [ok |-> TRUE,
                  threshold |-> FracMax(<<7, 10>>,
                                        FracMin(<<19, 20>>, FracAdd(avg, <<-1, 20>>)))]

\* what an EnhancedConfig has: its two fields, and no method of its own
EnhancedConfigAttributes == {"system", "models"}

\* SystemAdaptationEngine._tune_performance: whether it succeeded and the
\* timeouts it leaves. self.config.get_model_config is an attribute lookup on
\* the EnhancedConfig; a missing attribute raises inside the try and the
\* handler returns False.
_tune_performance(rec, timeouts) ==
    IF "get_model_config" \notin EnhancedConfigAttributes
    THEN [ok |-> FALSE, timeouts |-> timeouts]
    ELSE IF rec.target_component \notin DOMAIN timeouts
    THEN [ok |-> FALSE, timeouts |-> timeouts]
    ELSE [ok |-> TRUE,
          timeouts |-> IF rec.about_response_time
                       THEN [timeouts EXCEPT ![rec.target_component] = Max(15, @ - 5)]
                       ELSE timeouts]

\* mutant: every record says the adaptation succeeded
RecordOf_AlwaysSuccess(rec, success) ==
    [type |-> rec.adaptation_type, target |-> rec.target_component, success |-> TRUE]

\* adaptation_record of implement_adaptation
RecordOf(rec, success) ==
    [type |-> rec.adaptation_type, target |-> rec.target_component,
     success |-> success]

\* SystemAdaptationEngine.implement_adaptation on an engine state, at time t
ImplementOn(eng, rec, t) ==
    LET type == rec.adaptation_type
        tuned == _tune_performance(rec, eng.timeout_seconds)
        adjusted == _adjust_thresholds(metric_order, model_metrics, eng.success_threshold)
        success == CASE type = "performance_tuning" -> tuned.ok
                     [] type = "threshold_adjustment" -> adjusted.ok
                     [] OTHER -> TRUE
    IN  [confidence_threshold |->
             IF type = "routing_optimization"
             THEN _optimize_routing(eng.confidence_threshold, routing_accuracy_history)
             ELSE eng.confidence_threshold,
         success_threshold |->
             IF type = "threshold_adjustment" THEN adjusted.threshold
             ELSE eng.success_threshold,
         timeout_seconds |->
             IF type = "performance_tuning" THEN tuned.timeouts
             ELSE eng.timeout_seconds,
         adaptation_history |->
             Append(eng.adaptation_history, RecordOf(rec, success)),
         last_adaptation |-> t,
         returned |-> success,
         implemented |-> eng.implemented + (IF success THEN 1 ELSE 0),
         failed |-> eng.failed + (IF success THEN 0 ELSE 1)]

RECURSIVE ImplementAll(_, _, _)
ImplementAll(eng, recs, t) ==
    IF recs = <<>> THEN eng
    ELSE ImplementAll(ImplementOn(eng, Head(recs), t), Tail(recs), t)

\* mutant: only the two first recommendations are implemented
TopRecommendations_Two(recommendations) ==
    SubSeq(recommendations, 1, Min(2, Len(recommendations)))

\* recommendations[:3]
TopRecommendations(recommendations) ==
    SubSeq(recommendations, 1, Min(3, Len(recommendations)))

\* SystemAdaptationEngine.adaptation_interval, seconds
AdaptationInterval == 3600

\* mutant: the interval is counted from construction, not from the last adaptation
TooSoon_SinceStart(t, last) == t < AdaptationInterval

\* datetime.now() - self.last_adaptation < self.adaptation_interval
TooSoon(t, last) == t - last < AdaptationInterval

\* the engine state becomes the state of the components
Install(eng) ==
    /\ confidence_threshold' = eng.confidence_threshold
    /\ success_threshold' = eng.success_threshold
    /\ timeout_seconds' = eng.timeout_seconds
    /\ adaptation_history' = eng.adaptation_history
    /\ last_adaptation' = eng.last_adaptation

\* SystemAdaptationEngine.run_adaptation_cycle
run_adaptation_cycle ==
    /\ ncycles < MaxCycles
    /\ ncycles' = ncycles + 1
    /\ IF TooSoon(now, last_adaptation)
       THEN /\ cycle_result' = [status |-> "skipped", analyzed |-> 0,
                                implemented |-> 0, failed |-> 0]
            /\ UNCHANGED <<confidence_threshold, success_threshold, timeout_seconds,
                           adaptation_history, last_adaptation, last_analysis,
                           cycle_applied>>
       ELSE LET recommendations ==
                    analyze_system_performance(routing_accuracy_history, metric_order,
                                               model_metrics, success_threshold)
                eng == ImplementAll(EngineState, TopRecommendations(recommendations), now)
            IN  /\ Install(eng)
                /\ cycle_result' = [status |-> "completed",
                                    analyzed |-> Len(recommendations),
                                    implemented |-> eng.implemented,
                                    failed |-> eng.failed]
                /\ last_analysis' = recommendations
                /\ cycle_applied' = SubSeq(eng.adaptation_history,
                                           Len(adaptation_history) + 1,
                                           Len(eng.adaptation_history))
    /\ UNCHANGED <<pattern_cache, routing_accuracy_history, decision, last_store,
                   last_pattern, last_rule, ndecisions, last_age, rhist, napplied,
                   apply_result, cvars>>
    /\ UNCHANGED <<dvars, tvars, gvars, kvars>>

\* the recommendations handed to implement_adaptation directly
DirectRecommendations ==
    {AdaptationRecommendation("routing_optimization", "routing_engine", 1, 80, FALSE),
     AdaptationRecommendation("prompt_enhancement", "mathstral:7b", 2, 70, FALSE),
     AdaptationRecommendation("performance_tuning", "mathstral:7b", 2, 70, TRUE),
     AdaptationRecommendation("performance_tuning",
                              "deepseek-coder-v2:16b-lite-instruct", 2, 70, TRUE),
     AdaptationRecommendation("threshold_adjustment", "system_thresholds", 3, 50, FALSE),
     AdaptationRecommendation("model_selection", "model_selector", 3, 60, FALSE)}

\* SystemAdaptationEngine.implement_adaptation, called on its own
implement_adaptation(rec) ==
    /\ napplied' = napplied + 1
    /\ LET eng == ImplementOn(EngineState, rec, now)
       IN  Install(eng) /\ apply_result' = (IF eng.returned THEN "True" ELSE "False")
    /\ UNCHANGED <<pattern_cache, routing_accuracy_history, decision, last_store,
                   last_pattern, last_rule, ndecisions, last_age, rhist, cycle_result,
                   last_analysis, cycle_applied, ncycles, cvars>>
    /\ UNCHANGED <<dvars, tvars, gvars, kvars>>

\* what the adaptation engine is explored with
AdaptRecommendations ==
    {AdaptationRecommendation("routing_optimization", "routing_engine", 1, 80, FALSE)}
AdaptResponseTimes == {1000, 12000}
AdaptDecision ==
    _combine_recommendations(NoRecommendation,
                             Recommendation("deepseek-coder-v2:16b-lite-instruct", 50),
                             NoFeatures, DefaultThreshold)

\* events of the exploration so far
AdaptSteps ==
    Recorded + nreports + nticks + ncycles + napplied

AdaptNext ==
    \/ \E m \in TrackedModels, rt \in AdaptResponseTimes, ok \in BOOLEAN :
           /\ AdaptSteps < MaxAdaptSteps
           /\ Recorded < MaxTracked
           /\ record_interaction(m, rt, ok, NoRating)
           /\ UNCHANGED kvars
    \/ \E success \in BOOLEAN :
           /\ AdaptSteps < MaxAdaptSteps
           /\ nreports < MaxOutcomes
           /\ update_routing_patterns(AdaptDecision, success, TRUE)
    \/ \E dt \in ClockSteps : AdaptSteps < MaxAdaptSteps /\ Tick(dt)
    \/ AdaptSteps < MaxAdaptSteps /\ run_adaptation_cycle
    \/ \E rec \in AdaptRecommendations :
           /\ AdaptSteps < MaxAdaptSteps
           /\ napplied < MaxApplies
           /\ implement_adaptation(rec)

AdaptInit ==
    /\ Constructed
    /\ cfg_disabled = {}
    /\ confidence_threshold \in ConfiguredThresholds
    \* a configuration that does not know one of the models tracked
    /\ timeout_seconds =
           [m \in Models \ {"deepseek-coder-v2:16b-lite-instruct"} |-> DefaultTimeout]

AdaptSpec == AdaptInit /\ [][AdaptNext]_vars

\* ---- a long run of adaptations ----
\* limit of get_adaptation_history, the only length the code names
HistoryLimit == 50

\* SystemAdaptationEngine.get_adaptation_history(): adaptation_history[-limit:]
get_adaptation_history(history, limit) ==
    SubSeq(history, Max(1, Len(history) - limit + 1), Len(history))

\* the recommendations applied: any at the start of the run, then prompt
\* enhancements
LongRunRecommendations(n) ==
    IF n < 2 THEN DirectRecommendations
    ELSE {AdaptationRecommendation("prompt_enhancement", "mathstral:7b", 2, 70, FALSE)}

HistoryNext ==
    \E rec \in LongRunRecommendations(napplied) :
        /\ napplied < MaxHistoryApplies
        /\ implement_adaptation(rec)

HistorySpec == AdaptInit /\ [][HistoryNext]_vars

(***************************************************************************)
(* SystemAdaptationEngine.get_system_health_score                          *)
(***************************************************************************)
FracMul(x, y) == Frac(x[1] * y[1], x[2] * y[2])
\* x / y for y > 0
FracDiv(x, y) == Frac(x[1] * y[2], x[2] * y[1])

\* mutant: the score is returned as computed
Clamp01_Identity(x) == x

\* min(1.0, max(0.0, health_score))
Clamp01(x) == FracMin(<<1, 1>>, FracMax(<<0, 1>>, x))

\* model_score of one model's metrics
ModelScore(metrics) ==
    FracAdd(FracMul(metrics.success_rate, <<2, 5>>),
            FracAdd(FracMul(FracMin(<<1, 1>>,
                                    FracDiv(<<5000, 1>>,
                                            FracMax(<<1, 1>>,
                                                    metrics.avg_response_time_ms))),
                            <<3, 10>>),
                    FracMul(FracMin(<<1, 1>>, FracDivInt(metrics.user_satisfaction, 5)),
                            <<3, 10>>)))

\* weight = min(1.0, metrics.sample_size / 100)
Weight(metrics) == FracMin(<<1, 1>>, Frac(metrics.sample_size, 100))

\* models with fewer samples are skipped
HealthMinSamples == 5

\* total_score and total_weight after the loop over model_metrics
RECURSIVE HealthTotals(_, _)
HealthTotals(order, metrics) ==
    IF order = <<>> THEN [score |-> <<0, 1>>, weight |-> <<0, 1>>]
    ELSE LET rest == HealthTotals(Tail(order), metrics)
             m == metrics[Head(order)]
         IN  IF m.sample_size < HealthMinSamples THEN rest
             ELSE [score |-> FracAdd(rest.score, FracMul(ModelScore(m), Weight(m))),
                   weight |-> FracAdd(rest.weight, Weight(m))]

\* SystemAdaptationEngine.get_system_health_score: the value returned
get_system_health_score(order, metrics, history) ==
    IF order = <<>> THEN <<1, 2>>
    ELSE LET totals == HealthTotals(order, metrics)
         IN  IF totals.weight = <<0, 1>> THEN <<1, 2>>
             ELSE Clamp01(FracAdd(FracMul(FracDiv(totals.score, totals.weight),
                                          <<4, 5>>),
                                  FracMul(get_routing_accuracy(history), <<1, 5>>)))

\* a call of get_system_health_score
CallHealthScore ==
    /\ nhealth' = nhealth + 1
    /\ health' = get_system_health_score(metric_order, model_metrics,
                                         routing_accuracy_history)
    /\ UNCHANGED <<dvars, tvars, lvars, qvars, ivars, kvars, yvars>>

\* the interactions the health score is explored with: a quick success that
\* is rated, a quick success that is not, a slow failure with a rating below zero
HealthInteractions ==
    {[response_time_ms |-> 1000, success |-> TRUE, rating |-> [given |-> TRUE, value |-> 4]],
     [response_time_ms |-> 1000, success |-> TRUE, rating |-> NoRating],
     [response_time_ms |-> 12000, success |-> FALSE,
      rating |-> [given |-> TRUE, value |-> -20]]}

HealthSteps == Recorded + nreports + nhealth

HealthNext ==
    \/ \E m \in TrackedModels, i \in HealthInteractions :
           /\ HealthSteps < MaxHealthSteps
           /\ Recorded < MaxHealthInteractions
           /\ record_interaction(m, i.response_time_ms, i.success, i.rating)
           /\ UNCHANGED kvars
    \/ \E success \in BOOLEAN :
           /\ HealthSteps < MaxHealthSteps
           /\ nreports < MaxOutcomes
           /\ update_routing_patterns(AdaptDecision, success, TRUE)
    \/ /\ HealthSteps < MaxHealthSteps
       /\ nhealth < MaxHealthCalls
       /\ CallHealthScore

HealthSpec == TrackerInit /\ [][HealthNext]_vars

\* ---- PerformanceTracker.get_performance_trends ----
\* PerformanceTracker.trend_window_size
TrendWindowSize == 50

\* history[-n:]
LastValues(history, n) ==
    IF Len(history) <= n THEN history
    ELSE SubSeq(history, Len(history) - n + 1, Len(history))

\* sum of x * y over x = np.arange(len(y)), from position i on
RECURSIVE WeightedSum(_, _)
WeightedSum(y, i) ==
    IF i > Len(y) THEN <<0, 1>>
    ELSE FracAdd(FracMulInt(y[i], i - 1), WeightedSum(y, i + 1))

\* np.polyfit(x, y, 1)[0] with x = 0 .. len(y) - 1: the least-squares slope,
\* (n * Sxy - Sx * Sy) / (n * Sxx - Sx * Sx)
Slope(y) ==
    LET n == Len(y)
        sx == (n * (n - 1)) \div 2
        sxx == ((n - 1) * n * (2 * n - 1)) \div 6
    IN  FracDivInt(FracAdd(FracMulInt(WeightedSum(y, 1), n),
                           FracMulInt(FracSum(y), 0 - sx)),
                   n * sxx - sx * sx)

\* LearningMetric: the values of the members
LearningMetric ==
    {"routing_accuracy", "response_quality", "user_satisfaction", "response_time",
     "success_rate"}

\* PerformanceTracker.get_performance_trends: the trend and the number of
\* values it was computed from (len of "values" or "sample_size")
get_performance_trends(history_of, model_name, metric) ==
    LET history == HistoryOf(history_of, HistoryKey(model_name, metric))
        recent_values == LastValues(history, TrendWindowSize)
    IN  IF Len(history) < 2
        THEN [trend |-> "insufficient_data", points |-> Len(history)]
        ELSE [trend |->
                  IF Len(recent_values) >= 10
                  THEN LET slope == Slope(recent_values)
                       IN  IF FracLess(<<1, 100>>, slope) THEN "improving"
                           ELSE IF FracLess(slope, <<-1, 100>>) THEN "declining"
                           ELSE "stable"
                  ELSE "insufficient_data",
              points |-> Len(recent_values)]

\* what the trends are explored with: a fast rated success or a slow unrated
\* failure of one model
TrendInteractions ==
    {[response_time_ms |-> 1000, success |-> TRUE,
      rating |-> [given |-> TRUE, value |-> 5]],
     [response_time_ms |-> 3000, success |-> FALSE, rating |-> NoRating]}

TrendNext ==
    \E i \in TrendInteractions :
        /\ Recorded < MaxTrendInteractions
        /\ record_interaction("mathstral:7b", i.response_time_ms, i.success, i.rating)
        /\ UNCHANGED kvars

TrendSpec == TrackerInit /\ [][TrendNext]_vars

\* ---- the queries of the tracker ----
\* a call of identify_performance_issues
CallIssues ==
    /\ nqueries' = nqueries + 1
    /\ answer' = [query |-> "identify_performance_issues",
                  issues |-> identify_performance_issues(metric_order, model_metrics,
                                                         success_threshold)]
    /\ UNCHANGED <<dvars, tvars, lvars, hvars, qvars, ivars, kvars>>

\* the interactions the issues are explored with: a quick rated success, a
\* quick success without rating, a very slow failure rated low
IssueInteractions ==
    {[response_time_ms |-> 1000, success |-> TRUE, rating |-> [given |-> TRUE, value |-> 4]],
     [response_time_ms |-> 1000, success |-> TRUE, rating |-> NoRating],
     [response_time_ms |-> 20000, success |-> FALSE,
      rating |-> [given |-> TRUE, value |-> 2]]}

IssuesNext ==
    \/ \E m \in TrackedModels, i \in IssueInteractions :
           /\ Recorded < MaxIssueInteractions
           /\ record_interaction(m, i.response_time_ms, i.success, i.rating)
           /\ UNCHANGED kvars
    \/ /\ nqueries < MaxQueries
       /\ CallIssues

IssuesSpec == TrackerInit /\ [][IssuesNext]_vars

\* mutant: the response time is compared as it is
MetricValue_Raw(mm, metric) ==
    CASE metric = "success_rate" -> mm.success_rate
      [] metric = "response_time" -> mm.avg_response_time_ms
      [] metric = "user_satisfaction" -> mm.user_satisfaction

\* value of get_best_performing_model for one of the three metrics it knows
MetricValue(mm, metric) ==
    CASE metric = "success_rate" -> mm.success_rate
      [] metric = "response_time" -> FracMulInt(mm.avg_response_time_ms, -1)
      [] metric = "user_satisfaction" -> mm.user_satisfaction

\* best_model = None, best_value = None
NoBest == [model |-> "None", value |-> <<0, 1>>]

\* the loop of get_best_performing_model over model_metrics.items()
RECURSIVE BestAmong(_, _, _, _)
BestAmong(order, metrics, metric, best) ==
    IF order = <<>> THEN best
    ELSE LET m == Head(order)
             next ==
                 IF metrics[m].sample_size < 5 THEN best
                 ELSE IF metric \notin {"success_rate", "response_time",
                                        "user_satisfaction"}
                 THEN best
                 ELSE LET value == MetricValue(metrics[m], metric)
                      IN  IF best.model = "None" \/ FracLess(best.value, value)
                          THEN [model |-> m, value |-> value]
                          ELSE best
         IN  BestAmong(Tail(order), metrics, metric, next)

\* PerformanceTracker.get_best_performing_model: a model name or "None"
get_best_performing_model(order, metrics, metric) ==
    IF order = <<>> THEN "None"
    ELSE BestAmong(order, metrics, metric, NoBest).model

\* a call of get_best_performing_model
CallBest(metric) ==
    /\ nqueries' = nqueries + 1
    /\ answer' = [query |-> "get_best_performing_model", metric |-> metric,
                  best |-> get_best_performing_model(metric_order, model_metrics,
                                                     metric)]
    /\ UNCHANGED <<dvars, tvars, lvars, hvars, qvars, ivars, kvars>>

\* the interactions the best model is explored with: one model always answers
\* in 2 s and is rated 4, the other is quick and rated 5 or slow, failing and
\* rated 2
BestInteractions ==
    {[model_name |-> "deepseek-coder-v2:16b-lite-instruct", response_time_ms |-> 2000,
      success |-> TRUE, rating |-> [given |-> TRUE, value |-> 4]],
     [model_name |-> "mathstral:7b", response_time_ms |-> 1000,
      success |-> TRUE, rating |-> [given |-> TRUE, value |-> 5]],
     [model_name |-> "mathstral:7b", response_time_ms |-> 3000,
      success |-> FALSE, rating |-> [given |-> TRUE, value |-> 2]]}

BestNext ==
    \/ \E i \in BestInteractions :
           /\ Recorded < MaxBestInteractions
           /\ record_interaction(i.model_name, i.response_time_ms, i.success, i.rating)
           /\ UNCHANGED kvars
    \/ \E metric \in LearningMetric :
           /\ nqueries < MaxQueries
           /\ CallBest(metric)

BestSpec == TrackerInit /\ [][BestNext]_vars

(***************************************************************************)
(* Properties                                                              *)
(***************************************************************************)
\* contents that are empty or whitespace only, and router replies that name
\* a known label, written out so that the properties do not lean on strip()
BlankContents == {<<>>, <<" ", "\t">>}
Blank(resp) == ~resp.present \/ resp.content \in BlankContents
RecognisedReplies ==
    {Response(MATH), Response(<<" ", "M", "a", "t", "h", "\n">>), Response(GENERAL)}

GeneralChain == <<"lead_developer", "senior_developer", "principal_architect">>
MathChain == <<"math_specialist", "senior_developer", "principal_architect">>

\* the request has a chain: it is walking it, hangs in it, or has walked it
HasChain ==
    \/ pc = "walk"
    \/ pc = "hung" /\ chain # <<>>
    \/ pc = "done" /\ result.kind \in {"ok", "all_failed"}

\* C1: after exactly one classifier call the roles of the chain are invoked in
\* chain order; the first role whose content is not blank wins, its content
\* and role are returned and no later role is invoked, so the number of
\* specialist invocations is the chain position of the winner.
C1_FirstUsableResponseWins ==
    /\ pc = "walk" =>
          /\ Len(calls) = idx
          /\ Len(replies) = idx - 1
          /\ \A i \in 1..(idx - 1) : calls[i + 1] = chain[i] /\ Blank(replies[i])
    /\ (pc = "done" /\ result.kind = "ok") =>
          LET k == Len(calls) - 1
          IN  /\ k \in 1..Len(chain)
              /\ Len(replies) = k
              /\ Cardinality({i \in 1..Len(calls) : calls[i] = "router"}) = 1
              /\ calls[1] = "router"
              /\ \A i \in 1..k : calls[i + 1] = chain[i]
              /\ \A i \in 1..(k - 1) : Blank(replies[i])
              /\ ~Blank(replies[k])
              /\ result.has_content
              /\ result.content = replies[k].content
              /\ result.role = chain[k]

\* C1 witness: lead_developer and senior_developer failed, principal_architect
\* answered: three specialist invocations, in that order.
C1_Witness ==
    /\ pc = "done"
    /\ result.kind = "ok"
    /\ result.role = "principal_architect"
    /\ calls = <<"router", "lead_developer", "senior_developer", "principal_architect">>

\* sum of the recorded interactions over all models
TotalRecorded ==
    rec_n["openhermes:7b"] + rec_n["mathstral:7b"]
        + rec_n["deepseek-coder-v2:16b-lite-instruct"] + rec_n["codellama:13b"]
        + rec_n["wizardcoder:13b-python"]

\* C2: every terminal outcome (a role answered, or the chain was exhausted) is
\* reported exactly once to the PerformanceTracker, after the walk has
\* resolved: success=true for the winning backend, success=false for the
\* primary backend on exhaustion; never zero reports, never more than one.
C2_OutcomeReportedOnce ==
    /\ TotalRecorded = terminal
    /\ (pc = "done" /\ result.kind = "ok") =>
          rec_n[result.model] >= 1 /\ rec_succ[result.model] >= 1
    /\ (pc = "done" /\ result.kind = "all_failed") =>
          rec_n[ModelOf(chain[1])] >= 1

C4_ChainShape ==
    /\ HasChain =>
          /\ classification \in {"math", "general", "None"}
          /\ chain = IF classification = "math" THEN MathChain ELSE GeneralChain
          /\ (classification = "math") = (router_resp \in RecognisedReplies \ {Response(GENERAL)})
    /\ \A i, j \in 1..Len(calls) : calls[i] = calls[j] => i = j

\* C4 witness: a math request escalated from math_specialist to senior_developer.
C4_Witness ==
    /\ pc = "done"
    /\ result.kind = "ok"
    /\ classification = "math"
    /\ calls = <<"router", "math_specialist", "senior_developer">>

\* C5: when the classifier errors, gives no response, empty content or a label
\* outside {math, general}, the classification is general and the request
\* goes on to the chain walk; that alone gives no error result.
C5_FailSoftClassification ==
    /\ (HasChain /\ router_resp \notin RecognisedReplies) =>
          classification = "general" /\ chain = GeneralChain
    /\ (pc = "done" /\ calls # <<>>) => Len(calls) >= 2 /\ result.kind \in {"ok", "all_failed"}
    /\ (pc = "done" /\ Len(calls) = 2) => result.kind = "ok"

\* C5 witness: the router answered "banana" and lead_developer answered.
C5_Witness ==
    /\ pc = "done"
    /\ router_resp = Response(<<"b", "a", "n", "a", "n", "a">>)
    /\ result.kind = "ok"
    /\ result.role = "lead_developer"

\* the last connect() found the server and every model
ConnectivityEstablished == is_connected /\ \A m \in Models : llm_enabled[m]

C8_EmptyTaskRejected ==
    /\ (ctx \in EmptyTask /\ pc # "idle") => pc = "done"
    /\ (ctx \in EmptyTask /\ pc = "done") =>
          result.kind = "validation_error" /\ list_calls = 0 /\ calls = <<>>

\* C9: every call of process_request reaches Resolved or Exhausted: once it is
\* under way a step of it is always possible (a backend call that does not
\* complete is cut off), and it ends after at most three specialist calls.
C9_EveryRequestResolves ==
    /\ pc \in {"connecting", "classify", "walk", "hung"} => ENABLED Next
    /\ Len(replies) <= 3

\* C10: after any sequence of record_interaction calls for a model,
\* success_rate = successes / calls and avg_response_time_ms is the mean of
\* the recorded response times.
C10_RunningAveragesExact ==
    \A m \in DOMAIN model_metrics :
        /\ rec_n[m] > 0
        /\ model_metrics[m].success_rate[1] * rec_n[m]
               = rec_succ[m] * model_metrics[m].success_rate[2]
        /\ model_metrics[m].avg_response_time_ms[1] * rec_n[m]
               = rec_rt_sum[m] * model_metrics[m].avg_response_time_ms[2]

\* C10 witness: three interactions, two of them successful, times 1000, 1000
\* and 1400 ms: success_rate 2/3 and a mean of 3400/3 ms.
C10_Witness ==
    /\ "mathstral:7b" \in DOMAIN model_metrics
    /\ rec_n["mathstral:7b"] = 3
    /\ rec_succ["mathstral:7b"] = 2
    /\ rec_rt_sum["mathstral:7b"] = 3400
    /\ model_metrics["mathstral:7b"].success_rate = <<2, 3>>
    /\ model_metrics["mathstral:7b"].avg_response_time_ms = <<3400, 3>>

\* C11: every record_interaction call adds exactly one to the model's
\* sample_size, with or without a rating and whatever the response time; the
\* model's entry exists from its first interaction on and is never removed.
C11_SampleSizeCountsInteractions ==
    \A m \in TrackedModels :
        /\ (m \in DOMAIN model_metrics) <=> (rec_n[m] > 0)
        /\ m \in DOMAIN model_metrics => model_metrics[m].sample_size = rec_n[m]

\* C11 witness: two interactions without a rating and with a response time of
\* zero, which update neither user_satisfaction nor efficiency_score, next to
\* a model recorded once.
C11_Witness ==
    /\ DOMAIN model_metrics = TrackedModels
    /\ rec_n["mathstral:7b"] = 2
    /\ rec_rt_sum["mathstral:7b"] = 0
    /\ model_metrics["mathstral:7b"].sample_size = 2
    /\ model_metrics["mathstral:7b"].user_satisfaction = <<0, 1>>
    /\ model_metrics["mathstral:7b"].efficiency_score = <<0, 1>>
    /\ model_metrics["deepseek-coder-v2:16b-lite-instruct"].sample_size = 1

\* the last get_routing_decision call got as far as arbitrating between the
\* learned and the rule recommendation
Arbitrated == ndecisions > 0 /\ last_store # "unreached"

\* the learned and the rule recommendation of that call name the same model
Agreeing == Arbitrated /\ last_pattern.present /\ last_pattern.model = last_rule.model

\* the learned recommendation of that call was the one selected
LearnedSelected ==
    Arbitrated /\ last_pattern.present /\ last_pattern.confidence >= confidence_threshold

\* C12: if a learned recommendation exists and its confidence is at least
\* confidence_threshold, the decision's model and source are the learned
\* recommendation's; otherwise the decision's model is the rule
\* recommendation's.
C12_ConfidenceArbitration ==
    Arbitrated =>
        IF last_pattern.present /\ last_pattern.confidence >= confidence_threshold
        THEN /\ decision.model = last_pattern.model
             /\ decision.source = "learned_patterns"
        ELSE /\ decision.model = last_rule.model
             /\ decision.source = "rule_based"

\* C12 witness: threshold 0.75, a math request whose learned recommendation
\* is the general model with confidence 0.9: the learned model is chosen.
C12_Witness ==
    /\ confidence_threshold = 75
    /\ last_rule = Recommendation("mathstral:7b", 80)
    /\ last_pattern = Recommendation("deepseek-coder-v2:16b-lite-instruct", 90)
    /\ decision.model = "deepseek-coder-v2:16b-lite-instruct"
    /\ decision.source = "learned_patterns"

\* C13: when the learned and the rule recommendation name the same model the
\* confidence of the selected one is raised by 0.2 (at most 1.0) and the
\* reasoning gets the confirmation note, whether the learned or the rule
\* recommendation was selected.
C13_BoostWhicheverSelected ==
    Agreeing =>
        /\ decision.confirmed
        /\ decision.confidence =
               Min(100, (IF LearnedSelected THEN last_pattern.confidence
                         ELSE last_rule.confidence) + 20)

\* C14: when the learned and the rule recommendation name the same model the
\* decision's confidence is min(1.0, rule confidence + 0.2), for every learned
\* confidence and every threshold.
C14_AgreementConfidence ==
    Agreeing => decision.confidence = Min(100, last_rule.confidence + 20)

\* C15: when the pattern store returns nothing or its query fails, the
\* decision is exactly the rule recommendation: its model, its confidence
\* unboosted, source rule_based and the fallback models of that model.
C15_NoPatternMeansRule ==
    (ndecisions > 0 /\ last_store \in {"none", "error"}) =>
        /\ ~last_pattern.present
        /\ last_rule.present
        /\ decision.model = last_rule.model
        /\ decision.confidence = last_rule.confidence
        /\ decision.source = "rule_based"
        /\ ~decision.confirmed
        /\ decision.model \in
               {"mathstral:7b", "wizardcoder:13b-python", "codellama:13b",
                "deepseek-coder-v2:16b-lite-instruct"}
        /\ Len(decision.fallback_models) = 2

\* C15 witness: the store query failed for a math request: mathstral at 0.8.
C15_Witness ==
    /\ last_store = "error"
    /\ decision.features.math_score = 3
    /\ decision.model = "mathstral:7b"
    /\ decision.confidence = 80
    /\ decision.source = "rule_based"

\* C16: get_routing_decision always returns a decision; when anything before
\* the arbitration raises it is the hard-coded fallback: the general model,
\* confidence 0.3, source fallback and a list of two fallback models.
C16_FallbackOnInternalError ==
    /\ ndecisions > 0 =>
          decision.source \in {"learned_patterns", "rule_based", "fallback"}
    /\ (ndecisions > 0 /\ last_store = "unreached") =>
          /\ decision.model = "deepseek-coder-v2:16b-lite-instruct"
          /\ decision.confidence = 30
          /\ decision.source = "fallback"
          /\ decision.fallback_models = <<"codellama:13b", "wizardcoder:13b-python">>

\* C16 witness: a call whose context is None, after an earlier call that was
\* answered from the rules.
C16_Witness ==
    /\ ndecisions = 2
    /\ last_store = "unreached"
    /\ decision.source = "fallback"
    /\ decision.confidence = 30

\* C17: the rule recommendation is the first match of: math_score >= 2 ->
\* mathstral 0.8; architecture_score >= 2 or estimated_complexity > 0.7 ->
\* wizardcoder 0.7; debug_score >= 1 -> codellama 0.6; else the general model
\* at 0.5.
C17_RuleCascade ==
    Arbitrated =>
        LET f == decision.features
            math == f.math_score >= 2
            arch == f.architecture_score >= 2 \/ f.estimated_complexity > 70
            debug == f.debug_score >= 1
        IN  /\ math => last_rule = Recommendation("mathstral:7b", 80)
            /\ (~math /\ arch) => last_rule = Recommendation("wizardcoder:13b-python", 70)
            /\ (~math /\ ~arch /\ debug) => last_rule = Recommendation("codellama:13b", 60)
            /\ (~math /\ ~arch /\ ~debug) =>
                   last_rule = Recommendation("deepseek-coder-v2:16b-lite-instruct", 50)

\* C17 witness: three math keywords and no other: mathstral at 0.8.
C17_Witness ==
    /\ Arbitrated
    /\ decision.features.math_score = 3
    /\ decision.features.architecture_score = 0
    /\ decision.features.debug_score = 0
    /\ last_rule = Recommendation("mathstral:7b", 80)

\* C18: once a routing_optimization adaptation has been implemented,
\* confidence_threshold is neither below 0.5 nor above 0.9.
C18_ThresholdBounds ==
    (\E i \in 1..Len(adaptation_history) :
         adaptation_history[i].type = "routing_optimization")
    => (confidence_threshold >= 50 /\ confidence_threshold <= 90)

\* C19: a run_adaptation_cycle call made less than adaptation_interval after
\* last_adaptation returns skipped and leaves confidence_threshold, the alert
\* threshold, the timeouts, adaptation_history and last_adaptation as they were.
C19_TooSoonIsNoOp ==
    [][(ncycles' = ncycles + 1 /\ now - last_adaptation < 3600) =>
           /\ cycle_result'.status = "skipped"
           /\ UNCHANGED <<confidence_threshold, success_threshold, timeout_seconds,
                          adaptation_history, last_adaptation>>]_vars

\* C19 witness: a cycle that adapted, and 150 s later a cycle that was skipped.
C19_Witness ==
    /\ ncycles = 2
    /\ cycle_result.status = "skipped"
    /\ adaptation_history # <<>>
    /\ now = last_adaptation + 150

\* C20: a cycle that is not skipped implements the first min(3, n) of the n
\* recommendations, which are in order of priority and then of falling
\* confidence, each of them whether or not an earlier one failed; it returns
\* normally and reports n as analysed and implemented + failed = min(3, n).
C20_CycleAppliesTopThree ==
    /\ cycle_result.status \in {"none", "skipped", "completed"}
    /\ cycle_result.status = "completed" =>
          LET n == Len(last_analysis)
              k == IF n < 3 THEN n ELSE 3
          IN  /\ cycle_result.analyzed = n
              /\ cycle_result.implemented + cycle_result.failed = k
              /\ Len(cycle_applied) = k
              /\ \A i \in 1..k :
                     /\ cycle_applied[i].type = last_analysis[i].adaptation_type
                     /\ cycle_applied[i].target = last_analysis[i].target_component
              /\ cycle_result.implemented =
                     Cardinality({i \in 1..k : cycle_applied[i].success})
              /\ \A i \in 1..n, j \in 1..n :
                     i < j =>
                         \/ last_analysis[i].implementation_priority
                                < last_analysis[j].implementation_priority
                         \/ /\ last_analysis[i].implementation_priority
                                   = last_analysis[j].implementation_priority
                            /\ last_analysis[i].confidence >= last_analysis[j].confidence

\* C20 witness: five recommendations, of which the three first are implemented.
C20_Witness ==
    /\ cycle_result.status = "completed"
    /\ cycle_result.analyzed = 5
    /\ cycle_result.implemented = 3
    /\ Len(cycle_applied) = 3
    /\ cycle_applied[1].type = "routing_optimization"
    /\ cycle_applied[3].type = "prompt_enhancement"

\* a cycle in which a failed adaptation is followed by one that is implemented
C20_FailureDoesNotStop ==
    /\ cycle_result.status = "completed"
    /\ Len(cycle_applied) = 3
    /\ ~cycle_applied[2].success
    /\ cycle_applied[3].success

\* C21: every implement_adaptation call, of whatever kind and whether the
\* adaptation succeeds or fails, returns a boolean and appends exactly one
\* record to adaptation_history, whose success field is the value returned.
C21_ApplyRecordsWhatItReturns ==
    [][napplied' = napplied + 1 =>
          /\ apply_result' \in {"True", "False"}
          /\ Len(adaptation_history') = Len(adaptation_history) + 1
          /\ SubSeq(adaptation_history', 1, Len(adaptation_history)) = adaptation_history
          /\ adaptation_history'[Len(adaptation_history')].success
                 = (apply_result' = "True")]_vars

\* a failed adaptation of a model the configuration does not know was applied
\* directly and recorded
C21_Witness ==
    /\ napplied > 0
    /\ apply_result = "False"
    /\ adaptation_history # <<>>
    /\ adaptation_history[Len(adaptation_history)].type = "performance_tuning"
    /\ ~adaptation_history[Len(adaptation_history)].success

\* no model has the samples get_system_health_score asks for
NoneQualifies ==
    \A m \in DOMAIN model_metrics : model_metrics[m].sample_size < HealthMinSamples

\* C22: get_system_health_score always returns a value in [0, 1], whatever
\* the metrics and the routing accuracy, and returns 0.5 when no model is
\* recorded or no model has sample_size >= 5.
C22_HealthScoreRange ==
    [][nhealth' = nhealth + 1 =>
          /\ ~FracLess(health', <<0, 1>>)
          /\ ~FracLess(<<1, 1>>, health')
          /\ NoneQualifies => health' = <<1, 2>>]_vars

\* the score of a model whose five interactions all failed with ratings
\* below zero was asked for: the weighted sum is negative and 0 is returned
C22_Witness ==
    /\ nhealth > 0
    /\ health = <<0, 1>>
    /\ ~NoneQualifies

\* the default was returned although interactions were recorded
C22_DefaultWitness ==
    /\ nhealth > 0
    /\ health = <<1, 2>>
    /\ model_metrics # <<>>
    /\ NoneQualifies

\* C23: for every decision get_routing_decision can return, the fallback
\* included, update_routing_patterns appends exactly one entry to
\* routing_accuracy_history and leaves pattern_cache empty (stated for the
\* calls whose pattern store update did not fail).
C23_ReportAppendsAndClears ==
    [][nreports' = nreports + 1 /\ report_store_ok' =>
          /\ reported' # reported
          /\ Len(reported') = Len(reported) + 1
          /\ pattern_cache' = <<>>]_vars

\* the number of 1 entries held
Ones(h) == Cardinality({i \in 1..Len(h) : h[i] = 1})

\* C24: get_routing_accuracy returns the mean of the entries held in
\* routing_accuracy_history, (number of 1 entries)/(number of entries), and 0
\* when it is empty; the history holds the most recent outcomes only, at most
\* its capacity, so the result is in [0, 1].
C24_AccuracyIsMeanOfHeld ==
    LET h == routing_accuracy_history
        n == Len(reported)
        k == Min(n, AccuracyCapacity)
        acc == get_routing_accuracy(h)
    IN  /\ Len(h) <= AccuracyCapacity
        /\ h = SubSeq(reported, n - k + 1, n)
        /\ acc = IF h = <<>> THEN <<0, 1>> ELSE Frac(Ones(h), Len(h))
        /\ ~FracLess(acc, <<0, 1>>)
        /\ ~FracLess(<<1, 1>>, acc)

\* one outcome more than the capacity was reported, the first a failure: it
\* is no longer held and the accuracy is 1
C24_Witness ==
    /\ Len(reported) = AccuracyCapacity + 1
    /\ reported[1] = 0
    /\ Len(routing_accuracy_history) = AccuracyCapacity
    /\ get_routing_accuracy(routing_accuracy_history) = <<1, 1>>

\* C25: a cached recommendation is returned by get_routing_decision only if
\* it was stored less than 300 seconds ago; for an entry of any greater age,
\* a day or more included, the pattern store is queried again.
C25_CacheHonoursTTL ==
    last_store = "cached" => last_age < CacheSeconds

\* C26: under any interleaving of get_routing_decision and
\* update_routing_patterns calls, once an update_routing_patterns has
\* returned, pattern_cache holds no recommendation that was read from the
\* pattern store before the update of that call.
C26_NoStaleCacheAfterReport ==
    \A sig \in DOMAIN pattern_cache : cache_fetched[sig] >= completed_version

\* C27: when several process_request calls run concurrently on a director
\* that is not initialized and the connection succeeds, the connection
\* procedure (initialize_clients going on to connect) is run at most once.
C27_ConnectAtMostOnce ==
    connect_failures = 0 => connect_runs <= 1

\* the calls made for a model, and the successful ones among them
CallsFor(m) == {i \in 1..Len(spawned) : spawned[i].model_name = m}
SuccessfulCallsFor(m) == {i \in CallsFor(m) : spawned[i].success}

\* C28: under any interleaving of concurrent tasks calling record_interaction
\* for the same model, no update is lost: when all calls have completed,
\* sample_size is the number of calls and success_rate * sample_size the
\* number of successful calls.
C28_NoLostUpdate ==
    pending = {} =>
        \A m \in TrackedModels :
            IF CallsFor(m) = {} THEN m \notin DOMAIN model_metrics
            ELSE /\ m \in DOMAIN model_metrics
                 /\ model_metrics[m].sample_size = Cardinality(CallsFor(m))
                 /\ FracMulInt(model_metrics[m].success_rate,
                               model_metrics[m].sample_size)
                        = <<Cardinality(SuccessfulCallsFor(m)), 1>>

\* three tasks were pending together for one model, one of them with a
\* failure, and all have recorded
C28_Witness ==
    /\ pending = {}
    /\ Len(spawned) = MaxCallers
    /\ \A i \in 1..Len(spawned) : spawned[i].model_name = "mathstral:7b"
    /\ \E i \in 1..Len(spawned) : ~spawned[i].success
    /\ \E i \in 1..Len(spawned) : spawned[i].success
    /\ model_metrics["mathstral:7b"].sample_size = MaxCallers

\* C29: after any sequence of record_interaction calls for a model, some of
\* them without a rating, user_satisfaction is the arithmetic mean of the
\* ratings that were given.
C29_SatisfactionIsMeanOfRatings ==
    \A m \in DOMAIN model_metrics :
        rec_rating_n[m] > 0 =>
            model_metrics[m].user_satisfaction = Frac(rec_rating_sum[m], rec_rating_n[m])

\* C30: the adaptation history is bounded: after any number of
\* implement_adaptation calls its length does not exceed a fixed capacity
\* (the 50 entries get_adaptation_history returns).
C30_HistoryBounded ==
    Len(adaptation_history) <= HistoryLimit

\* what is bounded is the view get_adaptation_history gives of it
C30_ViewBounded ==
    Len(get_adaptation_history(adaptation_history, HistoryLimit)) <= HistoryLimit

\* the adaptation types among the recommendations of the last analysis
AnalysedTypes == {last_analysis[i].adaptation_type : i \in 1..Len(last_analysis)}

\* C31: analyze_system_performance returns a threshold_adjustment
\* recommendation if and only if it produced no routing_optimization,
\* performance_tuning or prompt_enhancement recommendation, and then it is
\* the only element; the list returned is never empty.
C31_ThresholdAdjustmentOnlyWhenHealthy ==
    cycle_result.status = "completed" =>
        /\ last_analysis # <<>>
        /\ "threshold_adjustment" \in AnalysedTypes
               <=> AnalysedTypes \cap {"routing_optimization", "performance_tuning",
                                       "prompt_enhancement"} = {}
        /\ "threshold_adjustment" \in AnalysedTypes => Len(last_analysis) = 1

\* a cycle ran on a system with good routing accuracy and a tracked model
\* without issues that recommend anything
C31_Witness ==
    /\ cycle_result.status = "completed"
    /\ model_metrics # <<>>
    /\ routing_accuracy_history # <<>>
    /\ Len(last_analysis) = 1
    /\ last_analysis[1].adaptation_type = "threshold_adjustment"

\* the success rates of all tracked models
RECURSIVE TrackedRates(_, _)
TrackedRates(order, metrics) ==
    IF order = <<>> THEN <<>>
    ELSE <<metrics[Head(order)].success_rate>> \o TrackedRates(Tail(order), metrics)

\* clamp(average success_rate of the tracked models - 0.05, 0.7, 0.95)
ClampedAverage(order, metrics) ==
    LET rates == TrackedRates(order, metrics)
        avg == FracDivInt(FracSum(rates), Len(rates))
    IN  FracMax(<<7, 10>>, FracMin(<<19, 20>>, FracAdd(avg, <<-1, 20>>)))

\* the last cycle applied a threshold_adjustment
CycleAdjustedThresholds ==
    \E i \in 1..Len(cycle_applied) : cycle_applied[i].type = "threshold_adjustment"

\* C32: applying threshold_adjustment sets the success-rate threshold to
\* clamp(average success_rate of the tracked models - 0.05, 0.7, 0.95) in
\* every state of the tracker with at least one tracked model.
C32_ThresholdRecomputed ==
    [][(/\ ncycles' = ncycles + 1
        /\ cycle_result'.status = "completed"
        /\ CycleAdjustedThresholds'
        /\ metric_order # <<>>)
       => success_threshold' = ClampedAverage(metric_order, model_metrics)]_vars

\* what does hold: the threshold stays within [0.7, 0.95]
C32_ThresholdInRange ==
    /\ ~FracLess(success_threshold, <<7, 10>>)
    /\ ~FracLess(<<19, 20>>, success_threshold)

\* the cycle just made applied performance_tuning to model b
CycleTuned(b) ==
    \E i \in 1..Len(cycle_applied) :
        /\ cycle_applied[i].type = "performance_tuning"
        /\ cycle_applied[i].target = b

\* C33: a performance_tuning recommendation raised by a response-time issue on
\* a model the configuration knows lowers that model's timeout by 5 s, not
\* below 15 s, and leaves the timeouts of the other models as they were.
C33_TuningLowersTimeout ==
    [][\A b \in DOMAIN timeout_seconds :
           (/\ ncycles' = ncycles + 1
            /\ cycle_result'.status = "completed"
            /\ CycleTuned(b)')
           => /\ timeout_seconds'[b] = Max(15, timeout_seconds[b] - 5)
              /\ \A o \in DOMAIN timeout_seconds \ {b} :
                     CycleTuned(o)' \/ timeout_seconds'[o] = timeout_seconds[o]]_vars

\* what does hold: no timeout is ever below 15 s, and none ever changes
C33_TimeoutsAtLeastFloor ==
    \A b \in DOMAIN timeout_seconds : timeout_seconds[b] >= 15

\* the metrics record_interaction updates
TrackedMetrics == {"success_rate", "response_time", "user_satisfaction"}

\* number of record_interaction calls that updated the metric of the model
UpdatesOf(m, metric) ==
    IF metric = "user_satisfaction" THEN rec_rating_n[m] ELSE rec_n[m]

\* the trend of the metric is computed over min(n, window) values after n
\* updates, and is insufficient_data only with fewer than 10 of them
TrendFollows(m, metric) ==
    LET t == get_performance_trends(metric_history, m, metric)
    IN  /\ t.points = Min(UpdatesOf(m, metric), TrendWindowSize)
        /\ (t.trend = "insufficient_data") <=> (t.points < 10)

\* C34: for success_rate, response_time and user_satisfaction, every
\* record_interaction call that updates the metric adds one value to the
\* history that get_performance_trends reads for that metric: after n such
\* calls the trend is computed over min(n, 50) values and is
\* insufficient_data only when there are fewer than 10.
C34_TrendSeesEveryUpdate ==
    \A m \in TrackedModels : \A metric \in TrackedMetrics : TrendFollows(m, metric)

\* what does hold: the success rates and the response times are followed
C34_RatesAndTimesFollowed ==
    \A m \in TrackedModels :
        TrendFollows(m, "success_rate") /\ TrendFollows(m, "response_time")

\* what does hold: the ratings are kept, under a key no trend is read from
C34_RatingsKeptElsewhere ==
    \A m \in TrackedModels :
        /\ Len(HistoryOf(metric_history, SatisfactionKey(m))) = rec_rating_n[m]
        /\ get_performance_trends(metric_history, m, "user_satisfaction").points = 0

\* the metric of the model is on the wrong side of its threshold
Breaches(m, metric) ==
    CASE metric = "success_rate" ->
             FracLess(model_metrics[m].success_rate, success_threshold)
      [] metric = "response_time" ->
             FracLess(FracOfInt(ResponseTimeThreshold),
                      model_metrics[m].avg_response_time_ms)
      [] metric = "user_satisfaction" ->
             FracLess(model_metrics[m].user_satisfaction,
                      FracOfInt(SatisfactionThreshold))

\* the metric is also beyond the secondary cutoff
BreachesCutoff(m, metric) ==
    CASE metric = "success_rate" -> FracLess(model_metrics[m].success_rate, <<7, 10>>)
      [] metric = "response_time" ->
             FracLess(<<15000, 1>>, model_metrics[m].avg_response_time_ms)
      [] metric = "user_satisfaction" ->
             FracLess(model_metrics[m].user_satisfaction, <<3, 1>>)

\* the issues are one entry for each pair of the set, rightly tagged
IssuesAre(issues, pairs) ==
    /\ {<<issues[i].model, issues[i].metric>> : i \in 1..Len(issues)} = pairs
    /\ Len(issues) = Cardinality(pairs)
    /\ \A i \in 1..Len(issues) :
           issues[i].severity =
               IF BreachesCutoff(issues[i].model, issues[i].metric)
               THEN "high" ELSE "medium"

\* C35: identify_performance_issues returns one entry for every pair of a
\* model and a metric whose success_rate is below, avg_response_time_ms above
\* or user_satisfaction below its threshold, and for no other pair, each
\* tagged high beyond the secondary cutoff and medium otherwise.
C35_EveryBreachReported ==
    [][(nqueries' = nqueries + 1 /\ answer'.query = "identify_performance_issues")
       => IssuesAre(answer'.issues,
                    {p \in (DOMAIN model_metrics) \X TrackedMetrics :
                         Breaches(p[1], p[2])})]_vars

\* C35 amended: as C35, a user_satisfaction of zero or less, which is what a
\* model without any rating has, not counting as below the threshold.
C35_EveryRatedBreachReported ==
    [][(nqueries' = nqueries + 1 /\ answer'.query = "identify_performance_issues")
       => IssuesAre(answer'.issues,
                    {p \in (DOMAIN model_metrics) \X TrackedMetrics :
                         /\ Breaches(p[1], p[2])
                         /\ p[2] = "user_satisfaction" =>
                                FracLess(<<0, 1>>, model_metrics[p[1]].user_satisfaction)})]_vars

\* C35 witness: a call that returned a high and a medium entry, one of them
\* about the satisfaction, while another model was never rated.
C35_Witness ==
    /\ answer.query = "identify_performance_issues"
    /\ \E i, j \in 1..Len(answer.issues) :
           /\ answer.issues[i].severity = "high"
           /\ answer.issues[j].severity = "medium"
           /\ answer.issues[j].metric = "user_satisfaction"
    /\ \E m \in DOMAIN model_metrics :
           /\ model_metrics[m].user_satisfaction = <<0, 1>>
           /\ \A i \in 1..Len(answer.issues) :
                  answer.issues[i].model = m => answer.issues[i].metric # "user_satisfaction"

\* the models get_best_performing_model may return: at least 5 samples
Qualifying == {m \in DOMAIN model_metrics : model_metrics[m].sample_size >= 5}

\* no model is better than b on the metric: a higher success rate or
\* satisfaction, a smaller average response time
NoneBetter(b, candidates, metric) ==
    \A o \in candidates :
        CASE metric = "success_rate" ->
                 ~FracLess(model_metrics[b].success_rate, model_metrics[o].success_rate)
          [] metric = "response_time" ->
                 ~FracLess(model_metrics[o].avg_response_time_ms,
                           model_metrics[b].avg_response_time_ms)
          [] metric = "user_satisfaction" ->
                 ~FracLess(model_metrics[b].user_satisfaction,
                           model_metrics[o].user_satisfaction)

\* C36: get_best_performing_model(metric), for success_rate, response_time and
\* user_satisfaction, returns a model with sample_size >= 5 that no other such
\* model beats on the metric (the smallest average response time wins), and
\* returns None when no model has 5 samples or none is tracked.
C36_BestAmongQualifying ==
    [][(/\ nqueries' = nqueries + 1
        /\ answer'.query = "get_best_performing_model"
        /\ answer'.metric \in TrackedMetrics)
       => IF Qualifying = {} THEN answer'.best = "None"
          ELSE /\ answer'.best \in Qualifying
               /\ NoneBetter(answer'.best, Qualifying, answer'.metric)]_vars

\* C36 witness: both models have 5 samples and the call for response_time
\* returned the model tracked second, whose average is strictly smaller.
C36_Witness ==
    /\ answer.query = "get_best_performing_model"
    /\ answer.metric = "response_time"
    /\ Qualifying = TrackedModels
    /\ answer.best = metric_order[2]
    /\ FracLess(model_metrics[metric_order[2]].avg_response_time_ms,
                model_metrics[metric_order[1]].avg_response_time_ms)

\* C36 witness of the other case: a model is tracked, none has 5 samples yet,
\* and the call returned None.
C36_NoneWitness ==
    /\ answer.query = "get_best_performing_model"
    /\ answer.metric \in TrackedMetrics
    /\ answer.best = "None"
    /\ nqueries = 1
    /\ Recorded = 4

C37_NoResponseAdvances ==
    [][(pc = "walk" /\ Len(replies') = Len(replies) + 1
            /\ ~replies'[Len(replies')].present)
       => /\ idx' = idx + 1
          /\ \/ pc' = "walk" /\ result' = result
             \/ pc' = "done" /\ result'.kind = "all_failed"]_vars

\* C37, in the chain walk: a disabled role was called, gave nothing, and the
\* role after it answered.
C37_WalkWitness ==
    /\ pc = "done"
    /\ result.kind = "ok"
    /\ \E i \in 1..Len(calls) : calls[i] \in cfg_disabled /\ calls[i] # "router"

\* C38: a run_adaptation_cycle call that starts with confidence_threshold
\* within [0.5, 0.9] never leaves it higher: the cycle applies
\* routing_optimization only with an accuracy below 0.75, where
\* _optimize_routing lowers.
C38_CycleNeverRaises ==
    [][(/\ ncycles' = ncycles + 1
        /\ confidence_threshold >= 50
        /\ confidence_threshold <= 90)
       => confidence_threshold' <= confidence_threshold]_vars

\* C38 witness: a cycle applied routing_optimization to a threshold of 0.75
\* and left 0.65.
C38_Witness ==
    /\ cycle_result.status = "completed"
    /\ \E i \in 1..Len(cycle_applied) :
           /\ cycle_applied[i].type = "routing_optimization"
           /\ cycle_applied[i].success
    /\ Len(adaptation_history) = Len(cycle_applied)
    /\ confidence_threshold = 65

\* C39: an update_routing_patterns call whose pattern store update fails
\* returns and leaves routing_accuracy_history and pattern_cache as they were.
C39_StoreFailureChangesNothing ==
    [][(nreports' = nreports + 1 /\ ~report_store_ok')
       => UNCHANGED <<routing_accuracy_history, pattern_cache>>]_vars

\* C39 witness: the second report met a failing store, after a first one was
\* counted and with a recommendation in the cache; both are still there.
C39_Witness ==
    /\ nreports = 2
    /\ ~report_store_ok
    /\ Len(routing_accuracy_history) = 1
    /\ pattern_cache # <<>>

\* C40: every result process_request returns carries either the response
\* content, with the model and the role that answered, or an error message,
\* with no content, no model and no role; never both and never neither.
C40_ContentOrError ==
    (pc = "done" /\ result.kind # "raised") =>
        /\ result.has_content # result.has_error
        /\ result.has_content =>
               /\ result.content # <<>>
               /\ result.role \in Roles
               /\ result.model = ModelOf(result.role)
        /\ result.has_error =>
               /\ result.content = <<>>
               /\ result.role = "None"
               /\ result.model = "None"

\* C40 witness: after a request that was answered, one whose chain gave no
\* response ends with the error message only.
C40_Witness ==
    /\ pc = "done"
    /\ last_kind = "ok"
    /\ result.kind = "all_failed"
    /\ result.has_error
    /\ ~result.has_content
    /\ result.chain # <<>>

=============================================================================
